---- MODULE Spec2Model ----
(***************************************************************************)
(* Model of the xpcshell fetch / parse / encode pipeline:                  *)
(*   - fetch-xpcshell-data.js (coordinator, encoder)  src/unnamed/part_001 *)
(*   - profile-worker.js (fetcher, cache, extractor)  src/unnamed/part_005 *)
(*                                                                         *)
(* JavaScript values are modelled as follows.                              *)
(*   - an object is a record; a property that is undefined is a field      *)
(*     absent from the record's DOMAIN;                                    *)
(*   - null is the record Null;                                            *)
(*   - an array is a sequence, read with 0-based indices through At;       *)
(*   - free text (test identifiers, paths, messages) is a sequence of      *)
(*     tokens, each token standing for a run of characters; the tokens     *)
(*     ":", "/", "\r", "\n" and ".js" stand for themselves and no other    *)
(*     token contains ':', '/', a line break, or ends in ".js";            *)
(*   - enumerated strings (marker types, statuses, colours, job names,     *)
(*     task ids) are TLA+ strings.                                         *)
(***************************************************************************)
EXTENDS Integers, Sequences, FiniteSets, TLC

(***************************************************************************)
(* Bounds of the model                                                     *)
(***************************************************************************)
MaxJobs == 2
MaxWorkers == 2

(***************************************************************************)
(* JavaScript helpers                                                      *)
(***************************************************************************)
Null == [null |-> TRUE]

Has(r, f) == f \in DOMAIN r

Opt(c, r) == IF c THEN r ELSE <<>>

\* arr[i] of a JavaScript array, for an index that is in range
At(arr, i) == arr[i + 1]

Last(s) == s[Len(s)]

Min(a, b) == IF a < b THEN a ELSE b

Range(s) == {s[i] : i \in 1..Len(s)}

RECURSIVE SumSeq(_)
SumSeq(s) == IF s = <<>> THEN 0 ELSE s[1] + SumSeq(Tail(s))

\* Array.prototype.indexOf, 0-based, -1 when absent
RECURSIVE IndexOfFrom(_, _, _)
IndexOfFrom(arr, v, i) ==
    IF i > Len(arr) THEN -1
    ELSE IF arr[i] = v THEN i - 1
    ELSE IndexOfFrom(arr, v, i + 1)

IndexOf(arr, v) == IndexOfFrom(arr, v, 1)

\* String.prototype.lastIndexOf for a one-character pattern, 0-based, -1 when absent
RECURSIVE LastIndexOfFrom(_, _, _)
LastIndexOfFrom(str, ch, i) ==
    IF i < 1 THEN -1
    ELSE IF str[i] = ch THEN i - 1
    ELSE LastIndexOfFrom(str, ch, i - 1)

LastIndexOf(str, ch) == LastIndexOfFrom(str, ch, Len(str))

\* String.prototype.split(sep)[1]: the text between the first and the second separator
SplitSecond(str, sep) ==
    LET first == IndexOf(str, sep) + 1
        rest  == SubSeq(str, first + 1, Len(str))
        nxt   == IndexOf(rest, sep)
    IN  IF nxt = -1 THEN rest ELSE SubSeq(rest, 1, nxt)

\* String.prototype.replace(/\r\n/g, '\n')
RECURSIVE ReplaceCRLF(_)
ReplaceCRLF(str) ==
    IF Len(str) < 2 THEN str
    ELSE IF str[1] = "\r" /\ str[2] = "\n" THEN <<"\n">> \o ReplaceCRLF(SubSeq(str, 3, Len(str)))
    ELSE <<str[1]>> \o ReplaceCRLF(Tail(str))

\* outcome of a call that may throw
Throw == [throws |-> TRUE]

Return(v) == [throws |-> FALSE, value |-> v]


(***************************************************************************)
(* Event Extractor (profile-worker.js)                                     *)
(*                                                                         *)
(* A marker table is a record of parallel arrays.  Any of its fields may   *)
(* be absent; the arrays that are present have markers.length entries.     *)
(* Marker times and meta.startTime are whole milliseconds.                 *)
(***************************************************************************)

\* the bound of "for (let i = 0; i < markers.length; i++)": no iteration when length is undefined
MarkersLength(markers) == IF Has(markers, "length") THEN markers.length ELSE 0

\* markers.data[i]?.type === type
DataIsType(data, type) == data # Null /\ Has(data, "type") /\ data.type = type

RECURSIVE ParallelRangesFrom(_, _, _)
ParallelRangesFrom(markers, i, acc) ==
    IF i >= MarkersLength(markers) THEN Return(acc)
    ELSE LET data == At(markers.data, i)
         IN  IF DataIsType(data, "Text") /\ Has(data, "text") /\ data.text = <<"parallel">>
             THEN IF ~Has(markers, "startTime") \/ ~Has(markers, "endTime") THEN Throw
                  ELSE ParallelRangesFrom(markers, i + 1,
                           Append(acc, [start |-> At(markers.startTime, i),
                                        end   |-> At(markers.endTime, i)]))
             ELSE ParallelRangesFrom(markers, i + 1, acc)

extractParallelRanges(markers, stringArray) == ParallelRangesFrom(markers, 0, <<>>)

isInParallelRange(testStart, testEnd, parallelRanges) ==
    \E k \in 1..Len(parallelRanges) :
        testStart < parallelRanges[k].end /\ testEnd > parallelRanges[k].start

\* the crash markers collected by the first loop of extractTestTimings;
\* "signature: data.signature || null" is an absent field here
RECURSIVE CrashMarkersFrom(_, _, _)
CrashMarkersFrom(markers, i, acc) ==
    IF i >= MarkersLength(markers) THEN Return(acc)
    ELSE LET data == At(markers.data, i)
         IN  IF ~DataIsType(data, "Crash") \/ ~Has(data, "test") \/ data.test = <<>>
             THEN CrashMarkersFrom(markers, i + 1, acc)
             ELSE IF ~Has(markers, "startTime") THEN Throw
             ELSE CrashMarkersFrom(markers, i + 1,
                      Append(acc, [testPath |-> data.test, startTime |-> At(markers.startTime, i)]
                                  @@ Opt(Has(data, "signature") /\ data.signature # "",
                                         [signature |-> data.signature])
                                  @@ Opt(Has(data, "minidump") /\ data.minidump # "",
                                         [minidump |-> data.minidump])))

\* a search that leaves out the crash markers on the bounds of the test's range
RECURSIVE FindCrashStrict(_, _, _, _, _)
FindCrashStrict(crashMarkers, k, data, testStartTime, testEndTime) ==
    IF k > Len(crashMarkers) THEN <<>>
    ELSE IF /\ Has(data, "test")
            /\ crashMarkers[k].testPath = data.test
            /\ crashMarkers[k].startTime > testStartTime
            /\ crashMarkers[k].startTime < testEndTime
         THEN <<crashMarkers[k]>>
         ELSE FindCrashStrict(crashMarkers, k + 1, data, testStartTime, testEndTime)

\* crashMarkers.find(crash => crash.testPath === data.test && startTime within the test's range)
RECURSIVE FindCrash(_, _, _, _, _)
FindCrash(crashMarkers, k, data, testStartTime, testEndTime) ==
    IF k > Len(crashMarkers) THEN <<>>
    ELSE IF /\ Has(data, "test")
            /\ crashMarkers[k].testPath = data.test
            /\ crashMarkers[k].startTime >= testStartTime
            /\ crashMarkers[k].startTime <= testEndTime
         THEN <<crashMarkers[k]>>
         ELSE FindCrash(crashMarkers, k + 1, data, testStartTime, testEndTime)

\* "data.test || data.name"; an undefined result is the empty text (both are falsy)
TestOrName(data) ==
    IF Has(data, "test") /\ data.test # <<>> THEN data.test
    ELSE IF Has(data, "name") THEN data.name
    ELSE <<>>

\* a status computation that adds the execution context to every status
TestStatusSuffixAll(markers, i, data, parallelRanges) ==
    LET status == IF Has(data, "status") /\ data.status # "" THEN data.status ELSE "UNKNOWN"
    IN  IF status = "FAIL" /\ Has(data, "color") /\ data.color = "green" THEN "EXPECTED-FAIL"
        ELSE IF Len(parallelRanges) > 0
             THEN status \o (IF isInParallelRange(At(markers.startTime, i), At(markers.endTime, i),
                                                  parallelRanges)
                             THEN "-PARALLEL" ELSE "-SEQUENTIAL")
             ELSE status

\* a status computation that adds the execution context before it looks at the colour
TestStatusSuffixFirst(markers, i, data, parallelRanges) ==
    LET status   == IF Has(data, "status") /\ data.status # "" THEN data.status ELSE "UNKNOWN"
        suffixed == IF status \in {"TIMEOUT", "FAIL", "PASS"} /\ Len(parallelRanges) > 0
                    THEN status \o (IF isInParallelRange(At(markers.startTime, i), At(markers.endTime, i),
                                                         parallelRanges)
                                    THEN "-PARALLEL" ELSE "-SEQUENTIAL")
                    ELSE status
    IN  IF suffixed = "FAIL" /\ Has(data, "color") /\ data.color = "green" THEN "EXPECTED-FAIL"
        ELSE suffixed

\* the status of a structured ("Test") marker, lines 163-174
TestStatus(markers, i, data, parallelRanges) ==
    LET status == IF Has(data, "status") /\ data.status # "" THEN data.status ELSE "UNKNOWN"
    IN  IF status = "FAIL" /\ Has(data, "color") /\ data.color = "green" THEN "EXPECTED-FAIL"
        ELSE IF status \in {"TIMEOUT", "FAIL", "PASS"} /\ Len(parallelRanges) > 0
             THEN status \o (IF isInParallelRange(At(markers.startTime, i), At(markers.endTime, i),
                                                  parallelRanges)
                             THEN "-PARALLEL" ELSE "-SEQUENTIAL")
             ELSE status

\* the path of a structured ("Test") marker, lines 162 and 179-181
TestPathOf(data) ==
    LET testPath == TestOrName(data)
    IN  IF testPath # <<>> /\ ":" \in Range(testPath) THEN SplitSecond(testPath, ":") ELSE testPath

\* the body of the main loop of extractTestTimings for marker i: the timing
\* it pushes (a one-element sequence), nothing (continue), or a throw
TimingOfMarker(profile, markers, i, testStringId, parallelRanges, crashMarkers) ==
    LET data == At(markers.data, i)
    IN  IF At(markers.name, i) # testStringId THEN Return(<<>>)
        ELSE IF data = Null THEN Return(<<>>)
        ELSE IF ~DataIsType(data, "Test") /\ ~DataIsType(data, "Text") THEN Return(<<>>)
        ELSE LET isTest   == DataIsType(data, "Test")
                 testPath == IF isTest THEN TestPathOf(data)
                             ELSE IF Has(data, "text") THEN data.text ELSE <<>>
                 status   == IF isTest THEN TestStatus(markers, i, data, parallelRanges) ELSE "UNKNOWN"
                 message  == IF isTest /\ Has(data, "message") /\ data.message # <<>>
                             THEN ReplaceCRLF(data.message) ELSE <<>>
             IN  IF ~isTest /\ testPath # <<>> /\ testPath[1] = "replaying full log for " THEN Return(<<>>)
                 ELSE IF testPath = <<>> \/ Last(testPath) # ".js" THEN Return(<<>>)
                 ELSE IF ~Has(markers, "startTime") \/ ~Has(markers, "endTime") THEN Throw
                 ELSE IF ~Has(profile, "meta") THEN Throw
                 ELSE LET testStartTime == At(markers.startTime, i)
                          testEndTime   == At(markers.endTime, i)
                          found         == IF status = "CRASH"
                                           THEN FindCrash(crashMarkers, 1, data, testStartTime, testEndTime)
                                           ELSE <<>>
                      IN  Return(<<[path      |-> testPath,
                                    duration  |-> testEndTime - testStartTime,
                                    status    |-> status,
                                    timestamp |-> profile.meta.startTime + testStartTime]
                                   @@ Opt(message # <<>>, [message |-> message])
                                   @@ Opt(found # <<>> /\ Has(found[1], "signature"),
                                          [crashSignature |-> found[1].signature])
                                   @@ Opt(found # <<>> /\ Has(found[1], "minidump"),
                                          [minidump |-> found[1].minidump])>>)

RECURSIVE TimingsFrom(_, _, _, _, _, _, _)
TimingsFrom(profile, markers, i, testStringId, parallelRanges, crashMarkers, acc) ==
    IF i >= MarkersLength(markers) THEN Return(acc)
    ELSE LET t == TimingOfMarker(profile, markers, i, testStringId, parallelRanges, crashMarkers)
         IN  IF t.throws THEN Throw
             ELSE TimingsFrom(profile, markers, i + 1, testStringId, parallelRanges, crashMarkers,
                              acc \o t.value)

extractTestTimings(profile, jobName) ==
    IF profile = Null \/ ~Has(profile, "threads") \/ profile.threads = <<>> THEN Return(<<>>)
    ELSE LET thread == profile.threads[1]
         IN  IF \/ ~Has(thread, "markers") \/ ~Has(thread, "stringArray")
                \/ ~Has(thread.markers, "data") \/ ~Has(thread.markers, "name")
             THEN Return(<<>>)
             ELSE LET markers        == thread.markers
                      parallelRanges == extractParallelRanges(markers, thread.stringArray)
                      crashMarkers   == CrashMarkersFrom(markers, 0, <<>>)
                  IN  IF parallelRanges.throws \/ crashMarkers.throws THEN Throw
                      ELSE TimingsFrom(profile, markers, 0, IndexOf(thread.stringArray, "test"),
                                       parallelRanges.value, crashMarkers.value, <<>>)

(***************************************************************************)
(* Resource usage (profile-worker.js).  data.cpuPercent is held as the     *)
(* parsed percentage in tenths of a percent ("21.4%" is 214, never         *)
(* negative); an absent field is a text parseFloat turns into NaN.         *)
(* meta.mainMemory is held in MiB.  logicalCPUs is a power of two, so that *)
(* the floating-point thresholds below are exact.  A machineInfo field     *)
(* that is null ("x || null" of an absent or zero x) is held as 0.         *)
(***************************************************************************)
\* parseFloat((mainMemory / 2^30).toFixed(1)), in tenths of a GiB
MainMemoryGB(mib) == (mib * 10 + 512) \div 1024

\* logicalCPUs ? (100 / logicalCPUs) : 12.5, as the divisor of 100
CoresOf(machineInfo) == IF machineInfo.logicalCPUs # 0 THEN machineInfo.logicalCPUs ELSE 8

\* a marker loop that counts as idle every sample below the usage of one core
UsageStepIdleBelowCore(markers, i, machineInfo, acc) ==
    LET data     == At(markers.data, i)
        duration == At(markers.endTime, i) - At(markers.startTime, i)
        cores    == CoresOf(machineInfo)
    IN  IF DataIsType(data, "Mem")
        THEN IF Has(data, "used") /\ data.used > acc.maxMemory
             THEN [acc EXCEPT !.maxMemory = data.used] ELSE acc
        ELSE IF DataIsType(data, "CPU") /\ Has(data, "cpuPercent")
        THEN LET cpuPercent  == data.cpuPercent
                 bucketIndex == Min(cpuPercent \div 100, 9)
             IN  [acc EXCEPT
                    !.idleTime = IF cpuPercent * cores < 1000 THEN @ + duration ELSE @,
                    !.singleCoreTime = IF cpuPercent * cores >= 750 /\ cpuPercent * cores <= 1250
                                       THEN @ + duration ELSE @,
                    !.cpuBuckets = [@ EXCEPT ![bucketIndex + 1] = @ + duration]]
        ELSE acc

\* one iteration of the marker loop of extractResourceUsage
UsageStep(markers, i, machineInfo, acc) ==
    LET data     == At(markers.data, i)
        duration == At(markers.endTime, i) - At(markers.startTime, i)
        cores    == CoresOf(machineInfo)
    IN  IF DataIsType(data, "Mem")
        THEN IF Has(data, "used") /\ data.used > acc.maxMemory
             THEN [acc EXCEPT !.maxMemory = data.used] ELSE acc
        ELSE IF DataIsType(data, "CPU") /\ Has(data, "cpuPercent")
        THEN LET cpuPercent  == data.cpuPercent
                 bucketIndex == Min(cpuPercent \div 100, 9)
             IN  [acc EXCEPT
                    !.idleTime = IF cpuPercent * cores * 2 < 1000 THEN @ + duration ELSE @,
                    !.singleCoreTime = IF cpuPercent * cores >= 750 /\ cpuPercent * cores <= 1250
                                       THEN @ + duration ELSE @,
                    !.cpuBuckets = [@ EXCEPT ![bucketIndex + 1] = @ + duration]]
        ELSE acc

RECURSIVE UsageFrom(_, _, _, _)
UsageFrom(markers, i, machineInfo, acc) ==
    IF i >= MarkersLength(markers) THEN Return(acc)
    ELSE IF At(markers.data, i) = Null THEN UsageFrom(markers, i + 1, machineInfo, acc)
    ELSE IF ~Has(markers, "startTime") \/ ~Has(markers, "endTime") THEN Throw
    ELSE UsageFrom(markers, i + 1, machineInfo, UsageStep(markers, i, machineInfo, acc))

extractResourceUsage(profile) ==
    IF profile = Null \/ ~Has(profile, "threads") \/ profile.threads = <<>> THEN Return(Null)
    ELSE LET thread == profile.threads[1]
         IN  IF ~Has(thread, "markers") \/ ~Has(thread.markers, "data") THEN Return(Null)
             ELSE LET meta        == IF Has(profile, "meta") THEN profile.meta ELSE <<>>
                      machineInfo ==
                          [logicalCPUs  |-> IF Has(meta, "logicalCPUs") THEN meta.logicalCPUs ELSE 0,
                           physicalCPUs |-> IF Has(meta, "physicalCPUs") THEN meta.physicalCPUs ELSE 0,
                           mainMemory   |-> IF Has(meta, "mainMemory")
                                            THEN MainMemoryGB(meta.mainMemory) ELSE 0]
                      usage       == UsageFrom(thread.markers, 0, machineInfo,
                                         [maxMemory |-> 0, idleTime |-> 0, singleCoreTime |-> 0,
                                          cpuBuckets |-> [b \in 1..10 |-> 0]])
                  IN  IF usage.throws THEN Throw
                      ELSE Return([machineInfo |-> machineInfo] @@ usage.value)

(***************************************************************************)
(* Columnar Encoder (fetch-xpcshell-data.js, createDataTables)             *)
(*                                                                         *)
(* A string table and its lookup Map are updated together, so the Map is   *)
(* read off the table.  testIdMap is the sequence of full paths in testId  *)
(* order.  A hole of a row of testRuns is Null, a hole of testRuns is the   *)
(* empty row (a row is never left empty, see FoldTiming) and a hole of an  *)
(* id array is NoId; a null id is NoId and a null minidump is NoDump.      *)
(***************************************************************************)
NoId == -1

NoDump == ""

\* arr[i] = v of a JavaScript array: writing past the end leaves holes
RECURSIVE Holes(_, _)
Holes(n, hole) == IF n <= 0 THEN <<>> ELSE <<hole>> \o Holes(n - 1, hole)

\* an assignment that appends instead of leaving holes
SetAtPacked(arr, i, v, hole) ==
    IF i < Len(arr) THEN [arr EXCEPT ![i + 1] = v] ELSE Append(arr, v)

SetAt(arr, i, v, hole) ==
    IF i < Len(arr) THEN [arr EXCEPT ![i + 1] = v]
    ELSE arr \o Holes(i - Len(arr), hole) \o <<v>>

\* the index findStringIndex returns for a string
StringIndex(table, string) ==
    IF IndexOf(table, string) = -1 THEN Len(table) ELSE IndexOf(table, string)

\* a findStringIndex that pushes the string without looking it up
findStringIndexPush(table, string) == Append(table, string)

\* the table findStringIndex leaves behind
findStringIndex(table, string) ==
    IF IndexOf(table, string) = -1 THEN Append(table, string) ELSE table

EmptyTables ==
    [jobNames |-> <<>>, testPaths |-> <<>>, testNames |-> <<>>, repositories |-> <<>>,
     statuses |-> <<>>, taskIds |-> <<>>, messages |-> <<>>, crashSignatures |-> <<>>]

EmptyData ==
    [tables    |-> EmptyTables,
     taskInfo  |-> [repositoryIds |-> <<>>, jobNameIds |-> <<>>],
     testInfo  |-> [testPathIds |-> <<>>, testNameIds |-> <<>>],
     testIdMap |-> <<>>,
     testRuns  |-> <<>>]

\* lines 292-303: the directory part and the file name of a full path
SplitPath(fullPath, lastSlashIndex) ==
    IF lastSlashIndex = -1 THEN [testPath |-> <<>>, testName |-> fullPath]
    ELSE [testPath |-> SubSeq(fullPath, 1, lastSlashIndex),
          testName |-> SubSeq(fullPath, lastSlashIndex + 2, Len(fullPath))]

\* lines 305-311: a new test gets the next testId
AddTest(ds, fullPath, split) ==
    [ds EXCEPT
       !.testInfo.testPathIds = Append(@, StringIndex(ds.tables.testPaths, split.testPath)),
       !.testInfo.testNameIds = Append(@, StringIndex(ds.tables.testNames, split.testName)),
       !.tables.testPaths = findStringIndex(@, split.testPath),
       !.tables.testNames = findStringIndex(@, split.testName),
       !.testIdMap = Append(@, fullPath)]

\* lines 290-312: look the test up, or split its path and create it
WithTest(ds, fullPath) ==
    IF IndexOf(ds.testIdMap, fullPath) # -1 THEN ds
    ELSE AddTest(ds, fullPath, SplitPath(fullPath, LastIndexOf(fullPath, "/")))

\* lines 331-347: the status group a timing creates
NewStatusGroup(timing) ==
    [taskIdIds |-> <<>>, durations |-> <<>>, timestamps |-> <<>>]
    @@ Opt(timing.status = "SKIP", [messageIds |-> <<>>])
    @@ Opt(timing.status = "CRASH", [crashSignatureIds |-> <<>>, minidumps |-> <<>>])

\* Math.round of a whole number of milliseconds
MathRound(x) == x

\* timing.message ? findStringIndex('messages', timing.message) : null
MessageId(messages, timing) ==
    IF Has(timing, "message") /\ timing.message # <<>>
    THEN StringIndex(messages, timing.message) ELSE NoId

\* timing.crashSignature ? findStringIndex('crashSignatures', ...) : null
CrashSignatureId(crashSignatures, timing) ==
    IF Has(timing, "crashSignature") /\ timing.crashSignature # ""
    THEN StringIndex(crashSignatures, timing.crashSignature) ELSE NoId

\* a fold that stores no minidump
AddRunDropsMinidump(group, timing, taskIdId, messageId, crashSignatureId) ==
    [taskIdIds  |-> Append(group.taskIdIds, taskIdId),
     durations  |-> Append(group.durations, MathRound(timing.duration)),
     timestamps |-> Append(group.timestamps, timing.timestamp)]
    @@ Opt(timing.status = "SKIP", [messageIds |-> Append(group.messageIds, messageId)])
    @@ Opt(timing.status = "CRASH",
           [crashSignatureIds |-> Append(group.crashSignatureIds, crashSignatureId),
            minidumps |-> Append(group.minidumps, NoDump)])
    @@ group

\* lines 349-365: the run of a timing is appended to every array of its group
AddRun(group, timing, taskIdId, messageId, crashSignatureId) ==
    [taskIdIds  |-> Append(group.taskIdIds, taskIdId),
     durations  |-> Append(group.durations, MathRound(timing.duration)),
     timestamps |-> Append(group.timestamps, timing.timestamp)]
    @@ Opt(timing.status = "SKIP", [messageIds |-> Append(group.messageIds, messageId)])
    @@ Opt(timing.status = "CRASH",
           [crashSignatureIds |-> Append(group.crashSignatureIds, crashSignatureId),
            minidumps |-> Append(group.minidumps,
                                 IF Has(timing, "minidump") /\ timing.minidump # ""
                                 THEN timing.minidump ELSE NoDump)])
    @@ group

\* testRuns[testId], or the row line 326 creates
RowOf(testRuns, testId) == IF testId < Len(testRuns) THEN At(testRuns, testId) ELSE <<>>

\* testRuns[testId][statusId], or the group lines 331-347 create
GroupOf(row, statusId, timing) ==
    IF statusId < Len(row) /\ At(row, statusId) # Null THEN At(row, statusId)
    ELSE NewStatusGroup(timing)

\* line 319: taskInfo.repositoryIds[taskIdId] === undefined
TaskInfoMissing(repositoryIds, taskIdId) ==
    taskIdId >= Len(repositoryIds) \/ At(repositoryIds, taskIdId) = NoId

\* a createDataTables that leaves out the task info
SetOnceSkipped(missing, ids, taskIdId, id) == ids

\* a createDataTables that stores the task info of every event
SetAlways(missing, ids, taskIdId, id) == SetAt(ids, taskIdId, id, NoId)

\* lines 319-322: task info is stored once per task id
SetOnce(missing, ids, taskIdId, id) ==
    IF missing THEN SetAt(ids, taskIdId, id, NoId) ELSE ids

\* lines 314-365, with the ids of the timing's test, status and task
FoldRun(ds, jobNameId, repositoryId, timing, testId, status, statusId, taskIdString, taskIdId) ==
    [ds EXCEPT
       !.testRuns = SetAt(@, testId,
                          SetAt(RowOf(@, testId), statusId,
                                AddRun(GroupOf(RowOf(@, testId), statusId, timing), timing, taskIdId,
                                       MessageId(ds.tables.messages, timing),
                                       CrashSignatureId(ds.tables.crashSignatures, timing)),
                                Null),
                          <<>>),
       !.tables.statuses = findStringIndex(@, status),
       !.tables.taskIds = findStringIndex(@, taskIdString),
       !.tables.messages = IF timing.status = "SKIP" /\ MessageId(@, timing) # NoId
                           THEN findStringIndex(@, timing.message) ELSE @,
       !.tables.crashSignatures = IF timing.status = "CRASH" /\ CrashSignatureId(@, timing) # NoId
                                  THEN findStringIndex(@, timing.crashSignature) ELSE @,
       !.taskInfo.repositoryIds =
           SetOnce(TaskInfoMissing(ds.taskInfo.repositoryIds, taskIdId), @, taskIdId, repositoryId),
       !.taskInfo.jobNameIds =
           SetOnce(TaskInfoMissing(ds.taskInfo.repositoryIds, taskIdId), @, taskIdId, jobNameId)]

\* line 314: timing.status || 'UNKNOWN'
StatusOf(timing) == IF timing.status # "" THEN timing.status ELSE "UNKNOWN"

\* line 315
TaskIdString(result) == result.taskId \o "." \o ToString(result.retryId)

\* lines 314-316 once the test of the timing exists in ds
FoldKnownTest(ds, result, jobNameId, repositoryId, timing) ==
    FoldRun(ds, jobNameId, repositoryId, timing,
            IndexOf(ds.testIdMap, timing.path),
            StatusOf(timing), StringIndex(ds.tables.statuses, StatusOf(timing)),
            TaskIdString(result), StringIndex(ds.tables.taskIds, TaskIdString(result)))

\* lines 286-366: the body of the loop over result.timings
FoldTiming(ds, result, jobNameId, repositoryId, timing) ==
    FoldKnownTest(WithTest(ds, timing.path), result, jobNameId, repositoryId, timing)

RECURSIVE FoldTimings(_, _, _, _, _)
FoldTimings(ds, result, jobNameId, repositoryId, k) ==
    IF k > Len(result.timings) THEN ds
    ELSE FoldTimings(FoldTiming(ds, result, jobNameId, repositoryId, result.timings[k]),
                     result, jobNameId, repositoryId, k + 1)

\* lines 280-284 and the loop over the timings of one job result
FoldResult(ds, result) ==
    IF result = Null \/ ~Has(result, "timings") THEN ds
    ELSE FoldTimings([ds EXCEPT !.tables.jobNames = findStringIndex(@, result.jobName),
                                !.tables.repositories = findStringIndex(@, result.repository)],
                     result,
                     StringIndex(ds.tables.jobNames, result.jobName),
                     StringIndex(ds.tables.repositories, result.repository), 1)

RECURSIVE FoldResults(_, _, _)
FoldResults(ds, jobResults, k) ==
    IF k > Len(jobResults) THEN ds
    ELSE FoldResults(FoldResult(ds, jobResults[k]), jobResults, k + 1)

\* line 369: the structure returned, without the lookup map
DataStructure(ds) ==
    [tables |-> ds.tables, taskInfo |-> ds.taskInfo, testInfo |-> ds.testInfo,
     testRuns |-> ds.testRuns]

createDataTables(jobResults) == DataStructure(FoldResults(EmptyData, jobResults, 1))

(***************************************************************************)
(* Differential compression (processJobsAndCreateData)                     *)
(***************************************************************************)

\* run objects whose timestamps stay absolute seconds
RunsOfAbsolute(statusGroup, startTime) ==
    [i \in 1..Len(statusGroup.timestamps) |->
        [timestamp |-> statusGroup.timestamps[i] \div 1000,
         taskIdId  |-> statusGroup.taskIdIds[i],
         duration  |-> statusGroup.durations[i]]
        @@ Opt(Has(statusGroup, "crashSignatureIds"),
               [crashSignatureId |-> statusGroup.crashSignatureIds[i]])
        @@ Opt(Has(statusGroup, "minidumps"), [minidump |-> statusGroup.minidumps[i]])
        @@ Opt(Has(statusGroup, "messageIds"), [messageId |-> statusGroup.messageIds[i]])]

\* lines 420-438: the run objects of a status group, timestamps made relative
RunsOf(statusGroup, startTime) ==
    [i \in 1..Len(statusGroup.timestamps) |->
        [timestamp |-> (statusGroup.timestamps[i] \div 1000) - startTime,
         taskIdId  |-> statusGroup.taskIdIds[i],
         duration  |-> statusGroup.durations[i]]
        @@ Opt(Has(statusGroup, "crashSignatureIds"),
               [crashSignatureId |-> statusGroup.crashSignatureIds[i]])
        @@ Opt(Has(statusGroup, "minidumps"), [minidump |-> statusGroup.minidumps[i]])
        @@ Opt(Has(statusGroup, "messageIds"), [messageId |-> statusGroup.messageIds[i]])]

\* Array.prototype.sort((a, b) => a.timestamp - b.timestamp): a stable sort
RECURSIVE InsertRun(_, _)
InsertRun(sorted, run) ==
    IF sorted = <<>> THEN <<run>>
    ELSE IF Last(sorted).timestamp <= run.timestamp THEN Append(sorted, run)
    ELSE Append(InsertRun(SubSeq(sorted, 1, Len(sorted) - 1), run), Last(sorted))

RECURSIVE SortRuns(_, _, _)
SortRuns(runs, k, sorted) ==
    IF k > Len(runs) THEN sorted ELSE SortRuns(runs, k + 1, InsertRun(sorted, runs[k]))

\* a compression that keeps the sorted timestamps as they are
DeltaRunsKept(runs) == runs

\* lines 444-449: each timestamp becomes the difference from the previous one
DeltaRuns(runs) ==
    [i \in 1..Len(runs) |->
        [runs[i] EXCEPT !.timestamp = @ - (IF i = 1 THEN 0 ELSE runs[i - 1].timestamp)]]

\* a rebuild that leaves the message ids in the order of arrival
ArraysOfMessagesKept(statusGroup, runs) ==
    [taskIdIds  |-> [i \in 1..Len(runs) |-> runs[i].taskIdId],
     durations  |-> [i \in 1..Len(runs) |-> runs[i].duration],
     timestamps |-> [i \in 1..Len(runs) |-> runs[i].timestamp]]
    @@ Opt(Has(statusGroup, "crashSignatureIds"),
           [crashSignatureIds |-> [i \in 1..Len(runs) |-> runs[i].crashSignatureId]])
    @@ Opt(Has(statusGroup, "minidumps"),
           [minidumps |-> [i \in 1..Len(runs) |-> runs[i].minidump]])
    @@ Opt(Has(statusGroup, "messageIds"), [messageIds |-> statusGroup.messageIds])

\* lines 451-464: the arrays of the group are rebuilt from the sorted runs
ArraysOf(statusGroup, runs) ==
    [taskIdIds  |-> [i \in 1..Len(runs) |-> runs[i].taskIdId],
     durations  |-> [i \in 1..Len(runs) |-> runs[i].duration],
     timestamps |-> [i \in 1..Len(runs) |-> runs[i].timestamp]]
    @@ Opt(Has(statusGroup, "crashSignatureIds"),
           [crashSignatureIds |-> [i \in 1..Len(runs) |-> runs[i].crashSignatureId]])
    @@ Opt(Has(statusGroup, "minidumps"),
           [minidumps |-> [i \in 1..Len(runs) |-> runs[i].minidump]])
    @@ Opt(Has(statusGroup, "messageIds"),
           [messageIds |-> [i \in 1..Len(runs) |-> runs[i].messageId]])

\* lines 416-464 for one status group
CompressGroup(statusGroup, startTime) ==
    ArraysOf(statusGroup, DeltaRuns(SortRuns(RunsOf(statusGroup, startTime), 1, <<>>)))

\* a compression whose previousTimestamp is not reset between the groups of a test
CompressRunsChained(testRuns, startTime) ==
    [t \in 1..Len(testRuns) |->
        [g \in 1..Len(testRuns[t]) |->
            IF testRuns[t][g] = Null THEN Null
            ELSE LET own      == CompressGroup(testRuns[t][g], startTime)
                     previous == IF g > 1 /\ testRuns[t][g - 1] # Null
                                 THEN SumSeq(CompressGroup(testRuns[t][g - 1], startTime).timestamps)
                                 ELSE 0
                 IN  [own EXCEPT !.timestamps[1] = @ - previous]]]

\* lines 410-466: every status group of every test
CompressRuns(testRuns, startTime) ==
    [t \in 1..Len(testRuns) |->
        [g \in 1..Len(testRuns[t]) |->
            IF testRuns[t][g] = Null THEN Null ELSE CompressGroup(testRuns[t][g], startTime)]]

\* total number of runs, as logged by lines 403-406
TotalRuns(testRuns) ==
    SumSeq([t \in 1..Len(testRuns) |->
              SumSeq([g \in 1..Len(testRuns[t]) |->
                        IF testRuns[t][g] = Null THEN 0 ELSE Len(testRuns[t][g].taskIdIds)])])

\* a processJobsAndCreateData without the check of hasTestRuns
DatasetAlways(jobs, jobResults, startTime, metadata, dataStructure) ==
    [metadata |-> [startTime |-> startTime, jobCount |-> Len(jobs),
                   processedJobCount |-> Len(jobResults)] @@ metadata,
     tables   |-> dataStructure.tables,
     taskInfo |-> dataStructure.taskInfo,
     testInfo |-> dataStructure.testInfo,
     testRuns |-> CompressRuns(dataStructure.testRuns, startTime)]

\* processJobsAndCreateData once the pool has resolved with jobResults:
\* the dataset, or Null when no test run was extracted.
\* metadata.generatedAt (the wall clock) is left out.
Dataset(jobs, jobResults, startTime, metadata, dataStructure) ==
    IF Len(dataStructure.testRuns) = 0 THEN Null
    ELSE [metadata |-> [startTime |-> startTime, jobCount |-> Len(jobs),
                        processedJobCount |-> Len(jobResults)] @@ metadata,
          tables   |-> dataStructure.tables,
          taskInfo |-> dataStructure.taskInfo,
          testInfo |-> dataStructure.testInfo,
          testRuns |-> CompressRuns(dataStructure.testRuns, startTime)]

CreateData(jobs, jobResults, startTime, metadata) ==
    Dataset(jobs, jobResults, startTime, metadata, createDataTables(jobResults))

(***************************************************************************)
(* Artifact Fetcher / Cache (profile-worker.js, fetchResourceProfile)      *)
(*                                                                         *)
(* The cache directory is a function from file names to file contents; a   *)
(* file that does not exist has the content NoFile.  A file content is     *)
(* Gzip(text) or some bytes gunzip rejects; a text is JSONStringify(value) *)
(* or some text JSON.parse rejects.                                        *)
(***************************************************************************)
cacheFileGz(taskId, retryId) == taskId \o "-" \o ToString(retryId) \o ".json.gz"

JSONStringify(value) == [json |-> value]

JSONParse(text) == IF Has(text, "json") THEN Return(text.json) ELSE Throw

Gzip(text) == [gzip |-> text]

Gunzip(bytes) == IF Has(bytes, "gzip") THEN Return(bytes.gzip) ELSE Throw

\* a text that is not JSON
GarbageText == [text |-> "{"]

\* a file that does not exist
NoFile == [exists |-> FALSE]

\* a fetchResourceProfile that never finds a usable cache entry
ReadCacheMiss(files, file, torn) == Throw

\* lines 243-252: the cached profile, or a throw when there is no file
\* (existsSync is false) or the catch block is entered.  torn: the file is
\* being rewritten by another thread while it is read.
ReadCache(files, file, torn) ==
    IF files[file] = NoFile \/ torn THEN Throw
    ELSE LET unzipped == Gunzip(files[file])
         IN  IF unzipped.throws THEN Throw ELSE JSONParse(unzipped.value)

\* a fetchResourceProfile whose catch block of lines 273-276 rethrows
FetchResultRethrows(o) ==
    IF o.kind = "ok" THEN Return(o.profile)
    ELSE IF o.kind = "error" THEN Throw ELSE Return(Null)

\* lines 257-263 and 273-276: what fetch and response.json() produced becomes
\* the profile, or null after a non-success status or a caught exception
FetchResult(o) == IF o.kind = "ok" THEN Return(o.profile) ELSE Return(Null)

\* lines 265-270: what "fs.writeFileSync(cacheFileGz, compressed)" leaves in the
\* cache: the compressed profile, or the old content when the call throws
WriteOutcomes == {"written", "failed"}

\* a cache write that leaves the JSON text uncompressed in the .json.gz file
WriteCacheUncompressed(files, file, profile, outcome) ==
    IF outcome = "written" THEN [files EXCEPT ![file] = JSONStringify(profile)]
    ELSE files

WriteCache(files, file, profile, outcome) ==
    IF outcome = "written" THEN [files EXCEPT ![file] = Gzip(JSONStringify(profile))]
    ELSE files

(***************************************************************************)
(* processJob (profile-worker.js)                                          *)
(***************************************************************************)
JobTaskId(job) == IF Has(job, "task_id") THEN job.task_id ELSE ""

\* job.retry_id || 0
JobRetryId(job) == IF Has(job, "retry_id") THEN job.retry_id ELSE 0

JobCacheFile(job) == cacheFileGz(JobTaskId(job), JobRetryId(job))

\* lines 303-306: start_time is an ISO string or a number of seconds
JobStartTime(job) ==
    IF job.start_time.type = "string" THEN job.start_time.ms \div 1000 ELSE job.start_time.value

\* lines 292-316: processJob once fetchResourceProfile has returned profile
ProcessProfile(job, profile) ==
    IF profile = Null THEN Return(Null)
    ELSE LET timings == extractTestTimings(profile, job.name)
         IN  IF timings.throws THEN Throw
             ELSE IF Len(timings.value) = 0 THEN Return(Null)
             ELSE LET resourceUsage == extractResourceUsage(profile)
                  IN  IF resourceUsage.throws THEN Throw
                      ELSE Return([jobName       |-> job.name,
                                   taskId        |-> JobTaskId(job),
                                   retryId       |-> JobRetryId(job),
                                   repository    |-> job.repository,
                                   startTime     |-> JobStartTime(job),
                                   timings       |-> timings.value,
                                   resourceUsage |-> resourceUsage.value])

(***************************************************************************)
(* Inputs of the worker-pool model                                         *)
(***************************************************************************)
\* a profile with one PASS test, a CPU sample and a memory sample
ProfileOne ==
    [meta    |-> [startTime |-> 200000, logicalCPUs |-> 8, physicalCPUs |-> 4, mainMemory |-> 16384],
     threads |-> <<[stringArray |-> <<"other", "test">>,
                    markers |-> [length    |-> 3,
                                 name      |-> <<1, 0, 0>>,
                                 startTime |-> <<10, 0, 0>>,
                                 endTime   |-> <<250, 1000, 1000>>,
                                 data      |-> <<[type |-> "Test", status |-> "PASS",
                                                  test |-> <<"xpcshell.toml", ":", "dom", "/", "test_a", ".js">>],
                                                 [type |-> "CPU", cpuPercent |-> 214],
                                                 [type |-> "Mem", used |-> 500]>>]]>>]

\* a profile with a skipped test and a crashed test with its crash marker
ProfileTwo ==
    [meta    |-> [startTime |-> 150000, logicalCPUs |-> 8, physicalCPUs |-> 4, mainMemory |-> 16384],
     threads |-> <<[stringArray |-> <<"test">>,
                    markers |-> [length    |-> 3,
                                 name      |-> <<0, 0, 1>>,
                                 startTime |-> <<2000, 20, 30>>,
                                 endTime   |-> <<2000, 900, 30>>,
                                 data      |-> <<[type |-> "Test", status |-> "SKIP",
                                                  test |-> <<"xpcshell.toml", ":", "test_b", ".js">>,
                                                  message |-> <<"skip-if", "\r", "\n", "os">>],
                                                 [type |-> "Test", status |-> "CRASH",
                                                  test |-> <<"xpcshell.toml", ":", "dom", "/", "test_a", ".js">>],
                                                 [type |-> "Crash", signature |-> "sig", minidump |-> "dump",
                                                  test |-> <<"xpcshell.toml", ":", "dom", "/", "test_a", ".js">>]>>]]>>]

\* a profile without any test marker: processJob skips the job
ProfileEmpty ==
    [meta    |-> [startTime |-> 100000],
     threads |-> <<[stringArray |-> <<"test">>,
                    markers |-> [length    |-> 1,
                                 name      |-> <<1>>,
                                 startTime |-> <<0>>,
                                 endTime   |-> <<10>>,
                                 data      |-> <<[type |-> "CPU", cpuPercent |-> 30]>>]]>>]

\* a profile with a test marker but no meta: extractTestTimings throws a TypeError
ProfileNoMeta ==
    [threads |-> <<[stringArray |-> <<"test">>,
                    markers |-> [length    |-> 1,
                                 name      |-> <<0>>,
                                 startTime |-> <<0>>,
                                 endTime   |-> <<10>>,
                                 data      |-> <<[type |-> "Text", text |-> <<"test_c", ".js">>]>>]]>>]

Profiles == {ProfileTwo, ProfileEmpty, ProfileNoMeta}

\* what "await fetch(url)" followed by "await response.json()" can produce:
\* a rejection (network error or invalid JSON), a non-success status, or a profile
FetchOutcomes == {[kind |-> "error"], [kind |-> "notok"]} \cup {[kind |-> "ok", profile |-> p] : p \in Profiles}

\* the job descriptors the job-listing service may supply
JobA == [task_id |-> "A", retry_id |-> 0, name |-> "test-linux/opt-xpcshell",
         start_time |-> [type |-> "string", ms |-> 160500], repository |-> "mozilla-central"]

JobB == [task_id |-> "B", name |-> "test-windows/opt-xpcshell",
         start_time |-> [type |-> "number", value |-> 170], repository |-> "autoland"]

JobNoTask == [name |-> "test-linux/opt-xpcshell", retry_id |-> 1,
              start_time |-> [type |-> "number", value |-> 180], repository |-> "autoland"]

Descriptors == {JobA, JobB, JobNoTask}

\* processJob after fetchResourceProfile has returned, for every descriptor and
\* every profile (or null) of this model
processJob ==
    [job \in Descriptors, profile \in Profiles \cup {ProfileOne, Null} |-> ProcessProfile(job, profile)]

RECURSIVE SeqsUpTo(_, _)
SeqsUpTo(S, n) ==
    IF n = 0 THEN {<<>>}
    ELSE LET shorter == SeqsUpTo(S, n - 1)
         IN  shorter \cup {Append(q, x) : q \in {r \in shorter : Len(r) = n - 1}, x \in S}

\* the cache files the batch can touch; a file that does not exist is NoFile
CacheFiles == {JobCacheFile(d) : d \in {x \in Descriptors : JobTaskId(x) # ""}}

EmptyCache == [f \in CacheFiles |-> NoFile]

\* the contents of the profile cache directory before the batch
InitialCaches ==
    {EmptyCache,
     [EmptyCache EXCEPT ![cacheFileGz("A", 0)] = Gzip(JSONStringify(ProfileOne))],
     [EmptyCache EXCEPT ![cacheFileGz("A", 0)] = Gzip(GarbageText)]}

\* processDateData: start of the target day, in seconds
StartOfDay == 100

Workers == 1..MaxWorkers

(***************************************************************************)
(* State                                                                   *)
(***************************************************************************)
VARIABLES
    jobs,             \* the descriptors passed to processJobsWithWorkers
    MAX_WORKERS,      \* the size of the pool on this machine
    phase,            \* "init", "pool" (processJobsWithWorkers called), "returned", "failed"
    jobQueue,         \* indices into jobs of the descriptors not yet assigned
    results,          \* the coordinator's result array
    completedJobs,
    sinceProgress,    \* now - lastProgressTime at the last reading of Date.now()
    workerStates,     \* workerStates.get(worker): [ready, jobsProcessed]
    resolved,
    workersFinished,
    promise,          \* the promise processJobsWithWorkers returns: [state, value]
    wpc,              \* where each worker thread is
    wjob,             \* the index of the job a worker is processing (0: none)
    wresults,         \* the results array of a worker's main()
    toWorker,         \* messages posted to each worker, in order
    toCoordinator,    \* messages and events of each worker not yet handled by the coordinator
    cache,            \* the profile cache directory
    output,           \* what processJobsAndCreateData returned
    datasetFile,      \* the dataset file of the day
    assignments,      \* history: for each job index, the workers it was posted to
    protocol,         \* history: for each worker, the types of the messages exchanged with it, as posted
    folded,           \* history: for each job index, how often its result was pushed to results
    cacheAccess,      \* history: for each cache file, the workers that read or wrote it
    netRequests,      \* history: for each job index, the number of network requests
    fetched,          \* history: what fetchResourceProfile last returned in each worker
    unfetchable,      \* history: the jobs without task id or whose network fetch failed
    faulted,          \* history: a worker fault reached the coordinator before the pool resolved
    fetchLog,         \* one fetcher alone: the calls of fetchResourceProfile so far, in order
    artifact,         \* the extractor alone: the profile handed to extractTestTimings
    extraction,       \* the extractor alone: what each call of extractTestTimings so far produced
    encoderInput,     \* the encoder alone: the job results createDataTables has iterated over
    encoderState,     \* the encoder alone: the tables and maps of createDataTables after them
    dataset,          \* the encoder alone: what processJobsAndCreateData returned for them
    progressLog,      \* the progress report alone: one entry per completion handled
    resourceUsage,    \* extractResourceUsage alone: the profile given and the summary returned
    historicalToggle  \* the historical-mode toggle alone: its closure, button and pending loads

coordVars == <<jobQueue, results, completedJobs, sinceProgress, workerStates, resolved,
               workersFinished, promise>>

workerVars == <<wpc, wjob, wresults>>

callerVars == <<phase, output, datasetFile>>

historyVars == <<assignments, protocol, folded, cacheAccess, netRequests, fetched, unfetchable, faulted>>

\* the state of the specifications that run one component alone
unitVars == <<fetchLog, artifact, extraction, encoderInput, encoderState, dataset,
              progressLog, resourceUsage, historicalToggle>>

vars == <<jobs, MAX_WORKERS, coordVars, workerVars, toWorker, toCoordinator, cache,
          callerVars, historyVars, unitVars>>

\* Only the difference now - lastProgressTime is read (line 153): the model
\* keeps that difference, up to LongAgo.  lastProgressTime starts at 0, an
\* epoch long before the first reading of the clock.
LongAgo == 1200

\* the time that may pass between two readings of Date.now()
Elapsed == {0, 600}

NoValue == [none |-> TRUE]

Pending == [state |-> "pending"]

\* a promise that takes every settlement, the last one staying
SettleLast(p, state, value) == [state |-> state, value |-> value]

\* resolve(value) and reject(): only the first settlement of a promise counts
Settle(p, state, value) ==
    IF p.state = "pending" THEN [state |-> state, value |-> value] ELSE p

\* no component is run alone
UnitIdle ==
    /\ fetchLog = <<>>
    /\ artifact = NoValue
    /\ extraction = <<>>
    /\ encoderInput = <<>>
    /\ encoderState = NoValue
    /\ dataset = NoValue
    /\ progressLog = <<>>
    /\ resourceUsage = NoValue
    /\ historicalToggle = NoValue

\* the pool before processJobsWithWorkers is called
PoolStart ==
    /\ phase = "init"
    /\ jobQueue = <<>>
    /\ results = <<>>
    /\ completedJobs = 0
    /\ sinceProgress = LongAgo
    /\ workerStates = [w \in Workers |-> [ready |-> FALSE, jobsProcessed |-> 0]]
    /\ resolved = FALSE
    /\ workersFinished = 0
    /\ promise = Pending
    /\ wpc = [w \in Workers |-> "none"]
    /\ wjob = [w \in Workers |-> 0]
    /\ wresults = [w \in Workers |-> <<>>]
    /\ toWorker = [w \in Workers |-> <<>>]
    /\ toCoordinator = [w \in Workers |-> <<>>]
    /\ output = NoValue
    /\ datasetFile = NoFile
    /\ assignments = [j \in 1..Len(jobs) |-> <<>>]
    /\ protocol = [w \in Workers |-> <<>>]
    /\ folded = [j \in 1..Len(jobs) |-> 0]
    /\ cacheAccess = [f \in CacheFiles |-> {}]
    /\ netRequests = [j \in 1..Len(jobs) |-> 0]
    /\ fetched = [w \in Workers |-> NoValue]
    /\ unfetchable = [j \in 1..Len(jobs) |-> FALSE]
    /\ faulted = FALSE

Init ==
    /\ jobs \in SeqsUpTo(Descriptors, MaxJobs)
    /\ MAX_WORKERS \in 1..MaxWorkers
    /\ cache \in InitialCaches
    /\ PoolStart
    /\ UnitIdle

\* the pool is not used: no job, no worker started
PoolIdle ==
    /\ jobs = <<>>
    /\ MAX_WORKERS = 1
    /\ PoolStart

poolVars == <<jobs, MAX_WORKERS, coordVars, workerVars, toWorker, toCoordinator, callerVars, historyVars>>

(***************************************************************************)
(* Worker Pool Coordinator (fetch-xpcshell-data.js, processJobsWithWorkers)*)
(***************************************************************************)
Post(channel, w, message) == [channel EXCEPT ![w] = Append(@, message)]

\* a 'message' event of a worker, and its 'error' and 'exit' events
Message(m) == [event |-> "message", message |-> m]

ErrorEvent == [event |-> "error"]

ExitEvent(code) == [event |-> "exit", code |-> code]

\* the next thing the coordinator hears from worker w is a message of this type
Receives(w, type) ==
    /\ toCoordinator[w] # <<>>
    /\ Head(toCoordinator[w]).event = "message"
    /\ Head(toCoordinator[w]).message.type = type

\* lines 116-135: the queue is a copy of the job list and MAX_WORKERS workers are created
SpawnWorkers ==
    /\ jobQueue' = [j \in 1..Len(jobs) |-> j]
    /\ wpc' = [w \in Workers |-> IF w <= MAX_WORKERS THEN "new" ELSE "none"]
    /\ phase' = "pool"
    /\ UNCHANGED <<unitVars, jobs, MAX_WORKERS, results, completedJobs, sinceProgress, workerStates,
                   resolved, workersFinished, promise, wjob, wresults, toWorker,
                   toCoordinator, cache, output, datasetFile, historyVars>>

\* processJobsWithWorkers without the early return of line 111
processJobsWithWorkersNoGuard ==
    /\ phase = "init"
    /\ SpawnWorkers

\* a call of processJobsWithWorkers(jobs)
processJobsWithWorkers ==
    /\ phase = "init"
    /\ IF Len(jobs) = 0
       THEN /\ promise' = Settle(promise, "fulfilled", <<>>)
            /\ phase' = "pool"
            /\ UNCHANGED <<unitVars, jobs, MAX_WORKERS, jobQueue, results, completedJobs, sinceProgress,
                           workerStates, resolved, workersFinished, workerVars, toWorker,
                           toCoordinator, cache, output, datasetFile, historyVars>>
       ELSE SpawnWorkers

\* a call of processJobsAndCreateData(jobs, ...), up to its await of the pool
processJobsAndCreateData ==
    /\ phase = "init"
    /\ IF Len(jobs) = 0
       THEN /\ output' = Null
            /\ phase' = "returned"
            /\ UNCHANGED <<unitVars, jobs, MAX_WORKERS, coordVars, workerVars, toWorker, toCoordinator,
                           cache, datasetFile, historyVars>>
       ELSE SpawnWorkers

\* the history of the messages of worker w gets one more entry
Posted(w, type) == protocol' = [protocol EXCEPT ![w] = Append(@, type)]

\* assignNextJob without "jobQueue.shift()": the head of the queue is posted and stays queued
assignNextJobKeepsQueue(w) ==
    IF Len(jobQueue) > 0
    THEN /\ toWorker' = Post(toWorker, w, [type |-> "job", job |-> jobs[Head(jobQueue)],
                                           index |-> Head(jobQueue)])
         /\ assignments' = [assignments EXCEPT ![Head(jobQueue)] = Append(@, w)]
         /\ Posted(w, "job")
         /\ UNCHANGED jobQueue
    ELSE /\ toWorker' = Post(toWorker, w, [type |-> "shutdown"])
         /\ Posted(w, "shutdown")
         /\ UNCHANGED <<jobQueue, assignments>>

\* an assignNextJob that posts 'shutdown' right behind the last job of the queue
assignNextJobEager(w) ==
    IF Len(jobQueue) > 1
    THEN /\ jobQueue' = Tail(jobQueue)
         /\ toWorker' = Post(toWorker, w, [type |-> "job", job |-> jobs[Head(jobQueue)],
                                           index |-> Head(jobQueue)])
         /\ assignments' = [assignments EXCEPT ![Head(jobQueue)] = Append(@, w)]
         /\ Posted(w, "job")
    ELSE IF Len(jobQueue) = 1
    THEN /\ jobQueue' = Tail(jobQueue)
         /\ toWorker' = [toWorker EXCEPT ![w] = @ \o <<[type |-> "job", job |-> jobs[Head(jobQueue)],
                                                         index |-> Head(jobQueue)],
                                                        [type |-> "shutdown"]>>]
         /\ assignments' = [assignments EXCEPT ![Head(jobQueue)] = Append(@, w)]
         /\ protocol' = [protocol EXCEPT ![w] = @ \o <<"job", "shutdown">>]
    ELSE /\ toWorker' = Post(toWorker, w, [type |-> "shutdown"])
         /\ Posted(w, "shutdown")
         /\ UNCHANGED <<jobQueue, assignments>>

\* assignNextJob without its else branch: an idle worker is never told to shut down
assignNextJobNoShutdown(w) ==
    IF Len(jobQueue) > 0
    THEN /\ jobQueue' = Tail(jobQueue)
         /\ toWorker' = Post(toWorker, w, [type |-> "job", job |-> jobs[Head(jobQueue)],
                                           index |-> Head(jobQueue)])
         /\ assignments' = [assignments EXCEPT ![Head(jobQueue)] = Append(@, w)]
         /\ Posted(w, "job")
    ELSE UNCHANGED <<jobQueue, toWorker, assignments, protocol>>

\* lines 185-193; the index sent with the job stands for the identity of the descriptor
assignNextJob(w) ==
    IF Len(jobQueue) > 0
    THEN /\ jobQueue' = Tail(jobQueue)
         /\ toWorker' = Post(toWorker, w, [type |-> "job", job |-> jobs[Head(jobQueue)],
                                           index |-> Head(jobQueue)])
         /\ assignments' = [assignments EXCEPT ![Head(jobQueue)] = Append(@, w)]
         /\ Posted(w, "job")
    ELSE /\ toWorker' = Post(toWorker, w, [type |-> "shutdown"])
         /\ Posted(w, "shutdown")
         /\ UNCHANGED <<jobQueue, assignments>>

\* lines 140-142
OnReady(w) ==
    /\ Receives(w, "ready")
    /\ toCoordinator' = [toCoordinator EXCEPT ![w] = Tail(@)]
    /\ workerStates' = [workerStates EXCEPT ![w].ready = TRUE]
    /\ assignNextJob(w)
    /\ UNCHANGED <<unitVars, jobs, MAX_WORKERS, results, completedJobs, sinceProgress, resolved,
                   workersFinished, promise, workerVars, cache, callerVars,
                   folded, cacheAccess, netRequests, fetched, unfetchable, faulted>>

\* the job whose completion worker w reports: the last one posted to it
JobOf(w) == CHOOSE j \in 1..Len(jobs) :
                /\ w \in Range(assignments[j])
                /\ \A k \in 1..Len(jobs) : w \in Range(assignments[k]) => k <= j

\* a progress report on every completion
ProgressShownAlways(completed, total, sinceLast) == TRUE

\* line 153: the first and the last completion are reported, any other one
\* when a second has passed since the last report
ProgressShown(completed, total, sinceLast) ==
    \/ completed = 1
    \/ completed = total
    \/ sinceLast >= 1000

\* lines 143-162
OnJobComplete(w) ==
    /\ Receives(w, "jobComplete")
    /\ \E dt \in Elapsed :
        LET message == Head(toCoordinator[w]).message
            sinceLast == Min(sinceProgress + dt, LongAgo)
            show    == ProgressShown(completedJobs + 1, Len(jobs), sinceLast)
        IN  /\ toCoordinator' = [toCoordinator EXCEPT ![w] = Tail(@)]
            /\ workerStates' = [workerStates EXCEPT ![w].jobsProcessed = @ + 1]
            /\ completedJobs' = completedJobs + 1
            /\ results' = IF message.result # Null THEN Append(results, message.result) ELSE results
            /\ folded' = IF message.result # Null THEN [folded EXCEPT ![JobOf(w)] = @ + 1] ELSE folded
            /\ sinceProgress' = IF show THEN 0 ELSE sinceLast
            /\ assignNextJob(w)
    /\ UNCHANGED <<unitVars, jobs, MAX_WORKERS, resolved, workersFinished, promise, workerVars, cache,
                   callerVars, cacheAccess, netRequests, fetched, unfetchable, faulted>>

\* line 210: worker.terminate() of every worker; a thread that is still running
\* stops and the coordinator gets its 'exit' event with code 1
Running(w) == wpc[w] \notin {"none", "dead", "failed"}

TerminateAll(channel) ==
    /\ wpc' = [w \in Workers |-> IF Running(w) THEN "terminated" ELSE wpc[w]]
    /\ toCoordinator' = [w \in Workers |->
                            IF Running(w) THEN Append(channel[w], ExitEvent(1)) ELSE channel[w]]

\* a 'finished' handler that pushes the results sent with the message
CollectFinishedAgain(collected, message) == collected \o message.results

\* lines 163-167: the results sent with 'finished' were already collected
CollectFinished(collected, message) == collected

\* a completion test that is satisfied by the first 'finished' message
AnyWorkerFinished(count) == count >= 1

\* line 203
AllWorkersFinished(count) == count >= MAX_WORKERS

\* lines 163-168 and checkAllComplete, lines 198-214
OnFinished(w) ==
    /\ Receives(w, "finished")
    /\ results' = CollectFinished(results, Head(toCoordinator[w]).message)
    /\ LET rest == [toCoordinator EXCEPT ![w] = Tail(@)]
       IN  IF resolved
           THEN /\ toCoordinator' = rest
                /\ UNCHANGED <<resolved, workersFinished, promise, wpc>>
           ELSE /\ workersFinished' = workersFinished + 1
                /\ IF AllWorkersFinished(workersFinished + 1)
                   THEN /\ resolved' = TRUE
                        /\ TerminateAll(rest)
                        /\ promise' = Settle(promise, "fulfilled", results')
                   ELSE /\ toCoordinator' = rest
                        /\ UNCHANGED <<resolved, promise, wpc>>
    /\ UNCHANGED <<unitVars, jobs, MAX_WORKERS, jobQueue, completedJobs, sinceProgress,
                   workerStates, wjob, wresults, toWorker, cache, callerVars,
                   historyVars>>

\* a fault handler that does not call reject
RejectDropped(w) ==
    /\ toCoordinator' = [toCoordinator EXCEPT ![w] = Tail(@)]
    /\ faulted' = (faulted \/ ~resolved)
    /\ UNCHANGED <<unitVars, jobs, MAX_WORKERS, jobQueue, results, completedJobs, sinceProgress,
                   workerStates, resolved, workersFinished, promise, workerVars, toWorker, cache,
                   callerVars, assignments, protocol, folded, cacheAccess, netRequests, fetched, unfetchable>>

\* reject(new Error(...)) in a handler of worker w
RejectFor(w) ==
    /\ toCoordinator' = [toCoordinator EXCEPT ![w] = Tail(@)]
    /\ promise' = Settle(promise, "rejected", [worker |-> w])
    /\ faulted' = (faulted \/ ~resolved)
    /\ UNCHANGED <<unitVars, jobs, MAX_WORKERS, jobQueue, results, completedJobs, sinceProgress,
                   workerStates, resolved, workersFinished, workerVars, toWorker, cache,
                   callerVars, assignments, protocol, folded, cacheAccess, netRequests, fetched, unfetchable>>

\* lines 169-171: a message of type 'error'
OnErrorMessage(w) ==
    /\ Receives(w, "error")
    /\ RejectFor(w)

\* lines 174-176: the 'error' event of the worker thread
OnThreadError(w) ==
    /\ toCoordinator[w] # <<>>
    /\ Head(toCoordinator[w]).event = "error"
    /\ RejectFor(w)

\* lines 178-182: the 'exit' event of the worker thread
OnExit(w) ==
    /\ toCoordinator[w] # <<>>
    /\ Head(toCoordinator[w]).event = "exit"
    /\ IF Head(toCoordinator[w]).code # 0
       THEN RejectFor(w)
       ELSE /\ toCoordinator' = [toCoordinator EXCEPT ![w] = Tail(@)]
            /\ UNCHANGED <<unitVars, jobs, MAX_WORKERS, coordVars, workerVars, toWorker, cache,
                           callerVars, historyVars>>

(***************************************************************************)
(* Worker threads (profile-worker.js, main)                                *)
(***************************************************************************)

\* lines 320-326 and 341-343: main() posts 'ready' and starts listening
WorkerMain(w) ==
    /\ wpc[w] = "new"
    /\ wpc' = [wpc EXCEPT ![w] = "idle"]
    /\ toCoordinator' = Post(toCoordinator, w, Message([type |-> "ready"]))
    /\ Posted(w, "ready")
    /\ UNCHANGED <<unitVars, jobs, MAX_WORKERS, coordVars, wjob, wresults, toWorker, cache, callerVars,
                   assignments, folded, cacheAccess, netRequests, fetched, unfetchable, faulted>>

\* lines 320-325 and 341-343: the try block of main() throws before a listener
\* is registered and the catch posts 'error'; with nothing left to wait for,
\* the thread ends with exit code 0
WorkerMainFails(w) ==
    /\ wpc[w] = "new"
    /\ wpc' = [wpc EXCEPT ![w] = "failed"]
    /\ toCoordinator' = [toCoordinator EXCEPT ![w] = @ \o <<Message([type |-> "error"]), ExitEvent(0)>>]
    /\ UNCHANGED <<unitVars, jobs, MAX_WORKERS, coordVars, wjob, wresults, toWorker, cache, callerVars, historyVars>>

\* lines 330-335: processJob has settled.  A rejection is not caught by the
\* handler: the thread dies with an 'error' event and exit code 1.
JobSettled(w, outcome) ==
    /\ wjob' = [wjob EXCEPT ![w] = 0]
    /\ IF outcome.throws
       THEN /\ wpc' = [wpc EXCEPT ![w] = "dead"]
            /\ toCoordinator' = [toCoordinator EXCEPT ![w] = @ \o <<ErrorEvent, ExitEvent(1)>>]
            /\ UNCHANGED <<wresults, protocol>>
       ELSE /\ wpc' = [wpc EXCEPT ![w] = "idle"]
            /\ wresults' = IF outcome.value # Null
                           THEN [wresults EXCEPT ![w] = Append(@, outcome.value)] ELSE wresults
            /\ toCoordinator' = Post(toCoordinator, w,
                                     Message([type |-> "jobComplete", result |-> outcome.value]))
            /\ Posted(w, "jobComplete")

\* another thread has a network fetch of the same cache file under way, so
\* its writeFileSync may overlap with a read of that file by worker w
WriterOf(file, w) ==
    \E v \in Workers \ {w} : wpc[v] = "fetching" /\ JobCacheFile(jobs[wjob[v]]) = file

\* lines 328-330, 280-291 and 239-257: a 'job' message arrives; processJob runs
\* up to the cache hit, or up to "await fetch(url)"
WorkerOnJob(w) ==
    /\ wpc[w] = "idle"
    /\ toWorker[w] # <<>>
    /\ Head(toWorker[w]).type = "job"
    /\ toWorker' = [toWorker EXCEPT ![w] = Tail(@)]
    /\ LET job   == Head(toWorker[w]).job
           index == Head(toWorker[w]).index
           file  == JobCacheFile(job)
       IN  IF JobTaskId(job) = ""
           THEN /\ JobSettled(w, Return(Null))
                /\ unfetchable' = [unfetchable EXCEPT ![index] = TRUE]
                /\ UNCHANGED <<cacheAccess, netRequests, fetched>>
           ELSE /\ cacheAccess' = [cacheAccess EXCEPT ![file] = @ \cup {w}]
                /\ \E torn \in {FALSE, WriterOf(file, w)} :
                     LET cached == ReadCache(cache, file, torn)
                     IN  IF ~cached.throws
                         THEN /\ fetched' = [fetched EXCEPT ![w] = [from |-> "cache", value |-> cached.value]]
                              /\ JobSettled(w, processJob[job, cached.value])
                              /\ UNCHANGED <<netRequests, unfetchable>>
                         ELSE /\ wpc' = [wpc EXCEPT ![w] = "fetching"]
                              /\ wjob' = [wjob EXCEPT ![w] = index]
                              /\ netRequests' = [netRequests EXCEPT ![index] = @ + 1]
                              /\ UNCHANGED <<wresults, toCoordinator, protocol, fetched, unfetchable>>
    /\ UNCHANGED <<unitVars, jobs, MAX_WORKERS, coordVars, cache, callerVars, assignments, folded, faulted>>

\* lines 257-276 and 292-316: the fetch settles.  A failure returns null; a
\* profile is cached (best effort), returned and processed
WorkerFetchSettled(w) ==
    /\ wpc[w] = "fetching"
    /\ \E o \in FetchOutcomes, written \in WriteOutcomes :
         LET job      == jobs[wjob[w]]
             file     == JobCacheFile(job)
             returned == FetchResult(o)
         IN  IF returned.throws
             THEN /\ JobSettled(w, Throw)
                  /\ unfetchable' = [unfetchable EXCEPT ![wjob[w]] = TRUE]
                  /\ UNCHANGED <<cache, cacheAccess, fetched>>
             ELSE IF o.kind # "ok"
             THEN /\ fetched' = [fetched EXCEPT ![w] = [from |-> "network", value |-> returned.value]]
                  /\ unfetchable' = [unfetchable EXCEPT ![wjob[w]] = TRUE]
                  /\ JobSettled(w, processJob[job, returned.value])
                  /\ UNCHANGED <<cache, cacheAccess>>
             ELSE /\ cache' = WriteCache(cache, file, returned.value, written)
                  /\ cacheAccess' = [cacheAccess EXCEPT ![file] = @ \cup {w}]
                  /\ fetched' = [fetched EXCEPT ![w] = [from |-> "network", value |-> returned.value]]
                  /\ JobSettled(w, processJob[job, returned.value])
                  /\ UNCHANGED unfetchable
    /\ UNCHANGED <<unitVars, jobs, MAX_WORKERS, coordVars, toWorker, callerVars, assignments,
                   folded, netRequests, faulted>>

\* lines 336-339: 'shutdown' is answered with 'finished' and the worker's results
WorkerOnShutdown(w) ==
    /\ wpc[w] = "idle"
    /\ toWorker[w] # <<>>
    /\ Head(toWorker[w]).type = "shutdown"
    /\ toWorker' = [toWorker EXCEPT ![w] = Tail(@)]
    /\ toCoordinator' = Post(toCoordinator, w, Message([type |-> "finished", results |-> wresults[w]]))
    /\ Posted(w, "finished")
    /\ UNCHANGED <<unitVars, jobs, MAX_WORKERS, coordVars, workerVars, cache, callerVars,
                   assignments, folded, cacheAccess, netRequests, fetched, unfetchable, faulted>>

(***************************************************************************)
(* The caller (processJobsAndCreateData and processDateData)               *)
(***************************************************************************)

\* a caller that does not wait for the outcome of the pool and encodes the
\* results collected so far
PoolResolvedPartial ==
    /\ phase = "pool"
    /\ Len(jobs) > 0
    /\ promise.state # "pending"
    /\ LET out == CreateData(jobs, results, StartOfDay, [date |-> "day"])
       IN  /\ output' = out
           /\ datasetFile' = IF out # Null THEN JSONStringify(out) ELSE datasetFile
    /\ phase' = "returned"
    /\ UNCHANGED <<unitVars, jobs, MAX_WORKERS, coordVars, workerVars, toWorker, toCoordinator, cache, historyVars>>

\* part_001 lines 386-486 and 575-579: the pool resolved; the dataset is
\* built and, unless it is null, written to the dataset file
PoolResolved ==
    /\ phase = "pool"
    /\ Len(jobs) > 0
    /\ promise.state = "fulfilled"
    /\ LET out == CreateData(jobs, promise.value, StartOfDay, [date |-> "day"])
       IN  /\ output' = out
           /\ datasetFile' = IF out # Null THEN JSONStringify(out) ELSE datasetFile
    /\ phase' = "returned"
    /\ UNCHANGED <<unitVars, jobs, MAX_WORKERS, coordVars, workerVars, toWorker, toCoordinator, cache, historyVars>>

\* part_001 lines 590-593: the pool rejected; processDateData logs and returns null
PoolRejected ==
    /\ phase = "pool"
    /\ promise.state = "rejected"
    /\ phase' = "failed"
    /\ UNCHANGED <<unitVars, jobs, MAX_WORKERS, coordVars, workerVars, toWorker, toCoordinator, cache, output, datasetFile, historyVars>>

Next ==
    \/ processJobsWithWorkers
    \/ processJobsAndCreateData
    \/ PoolResolved
    \/ PoolRejected
    \/ \E w \in Workers :
        \/ OnReady(w)
        \/ OnJobComplete(w)
        \/ OnFinished(w)
        \/ OnErrorMessage(w)
        \/ OnThreadError(w)
        \/ OnExit(w)
        \/ WorkerMain(w)
        \/ WorkerMainFails(w)
        \/ WorkerOnJob(w)
        \/ WorkerFetchSettled(w)
        \/ WorkerOnShutdown(w)

Spec == Init /\ [][Next]_vars

\* the steps of the pool: the coordinator's event loop and the worker threads
PoolStep ==
    \/ processJobsWithWorkers
    \/ processJobsAndCreateData
    \/ \E w \in Workers :
        \/ OnReady(w)
        \/ OnJobComplete(w)
        \/ OnFinished(w)
        \/ OnErrorMessage(w)
        \/ OnThreadError(w)
        \/ OnExit(w)
        \/ WorkerMain(w)
        \/ WorkerMainFails(w)
        \/ WorkerOnJob(w)
        \/ WorkerFetchSettled(w)
        \/ WorkerOnShutdown(w)

\* Fair scheduling: the event loop of the coordinator handles a pending event,
\* a worker thread runs and an artifact fetch returns.  No step of the pool can
\* be repeated for ever (each one consumes a message, a job or a thread), so
\* weak fairness of the pool's steps gives every enabled step its turn.
FairSpec == Init /\ [][Next]_vars /\ WF_vars(PoolStep)

(***************************************************************************)
(* Properties of the worker pool                                           *)
(***************************************************************************)
JobIndexes == 1..Len(jobs)

\* a worker thread has thrown: main() failed, or processJob rejected
WorkerFault == \E w \in Workers : wpc[w] \in {"failed", "dead"}

\* C1: in every interleaving no descriptor is posted to a worker twice, and
\* when the pool has resolved successfully every descriptor was posted to
\* exactly one worker, exactly once.
C1_AssignedExactlyOnce ==
    /\ \A j \in JobIndexes : Len(assignments[j]) <= 1
    /\ promise.state = "fulfilled" => \A j \in JobIndexes : Len(assignments[j]) = 1

\* two descriptors went to two different workers and the pool resolved
C1_Witness ==
    /\ promise.state = "fulfilled"
    /\ Len(jobs) = 2
    /\ assignments[1] = <<2>>
    /\ assignments[2] = <<1>>

\* C2: when the pool resolves, the coordinator has received one jobComplete
\* message per input descriptor, whatever the number of workers and the order
\* in which they finish; a skipped job counts.
C2_CompletionsEqualJobs ==
    promise.state = "fulfilled" => completedJobs = Len(jobs)

\* the pool resolved after one of two workers took both jobs, one of them skipped
C2_Witness ==
    /\ promise.state = "fulfilled"
    /\ Len(jobs) = 2
    /\ MAX_WORKERS = 2
    /\ completedJobs = 2
    /\ workerStates[2].jobsProcessed = 2
    /\ \E j \in JobIndexes : unfetchable[j]

\* C3: once a worker fault ('error' message, thread 'error' event, exit with
\* a non-zero code) has reached the coordinator before the pool resolved, the
\* result of processJobsWithWorkers is a failure.
C3_FaultRejects ==
    faulted => promise.state = "rejected"

\* a worker faulted after another worker had delivered a result
C3_Witness ==
    /\ faulted
    /\ promise.state = "rejected"
    /\ \E v \in Workers : v # promise.value.worker /\ workerStates[v].jobsProcessed > 0
    /\ Len(results) > 0

\* C4: after a worker fault has been reported the coordinator posts no
\* further descriptor of the queue to any worker.
C4_NoAssignmentAfterFault ==
    [][faulted => assignments' = assignments]_vars

\* C5: under fair scheduling, once the pool is started with at least one
\* descriptor it eventually resolves, unless a worker thread faults; this
\* holds for every number of workers, also with more workers than jobs.
C5_EventuallyResolves ==
    (phase = "pool" /\ Len(jobs) >= 1) ~> (promise.state = "fulfilled" \/ WorkerFault)

\* the pool resolved with more workers than descriptors, all of them acknowledged
C5_Witness ==
    /\ promise.state = "fulfilled"
    /\ Len(jobs) = 1
    /\ MAX_WORKERS = 2
    /\ workersFinished = 2
    /\ \A w \in Workers : wpc[w] = "terminated"

\* the step in which job j, posted to worker w, becomes unfetchable: its
\* descriptor has no task id, or its network fetch failed
BecomesUnfetchable(w, j) ==
    /\ assignments[j] = <<w>>
    /\ ~unfetchable[j]
    /\ unfetchable'[j]

\* the step in which the coordinator handles a jobComplete of worker w that carries no result
HandlesEmptyCompletion(w) ==
    /\ Receives(w, "jobComplete")
    /\ Head(toCoordinator[w]).message.result = Null
    /\ toCoordinator'[w] = Tail(toCoordinator[w])

\* what assignNextJob posts to a worker: the head of the queue, or 'shutdown'
NextMessage ==
    IF Len(jobQueue) > 0
    THEN [type |-> "job", job |-> jobs[Head(jobQueue)], index |-> Head(jobQueue)]
    ELSE [type |-> "shutdown"]

C6_Step ==
    \A w \in Workers :
        /\ \A j \in JobIndexes :
             BecomesUnfetchable(w, j) =>
                 /\ wpc'[w] = "idle"
                 /\ toCoordinator'[w] =
                        Append(toCoordinator[w], Message([type |-> "jobComplete", result |-> Null]))
        /\ HandlesEmptyCompletion(w) =>
                 /\ results' = results
                 /\ completedJobs' = completedJobs + 1
                 /\ toWorker'[w] = Append(toWorker[w], NextMessage)

\* C6: an unfetchable artifact (missing task id, network exception, HTTP
\* non-success) is not fatal: the worker stays alive and answers with a
\* jobComplete without result, the coordinator adds nothing to the results and
\* posts the next descriptor (or shutdown) to that worker, the job is never
\* part of the result set, and the pool still resolves unless a worker faults.
C6_UnfetchableNotFatal ==
    /\ [][C6_Step]_vars
    /\ [](\A j \in JobIndexes : unfetchable[j] => folded[j] = 0)
    /\ ((\E j \in JobIndexes : unfetchable[j]) ~> (promise.state = "fulfilled" \/ WorkerFault))

\* the network fetch of job 1 failed, its worker went on with job 2, and the
\* pool resolved with the result of job 2 only
C6_Witness ==
    /\ promise.state = "fulfilled"
    /\ Len(jobs) = 2
    /\ unfetchable[1]
    /\ netRequests[1] = 1
    /\ assignments[1] = assignments[2]
    /\ folded = <<0, 1>>
    /\ Len(promise.value) = 1

\* the number of timings of a list of job results
TotalEvents(jobResults) ==
    SumSeq([i \in 1..Len(jobResults) |-> Len(jobResults[i].timings)])

\* C7: every result a worker returned is in the result set exactly once: a
\* jobComplete result is pushed once, the results sent again with 'finished'
\* are not pushed, and the runs of all status groups of the dataset add up to
\* the events of the results the pool resolved with.
C7_FoldedExactlyOnce ==
    /\ \A j \in JobIndexes : folded[j] <= 1
    /\ Len(results) = SumSeq(folded)
    /\ promise.state = "fulfilled" =>
           Len(promise.value) = SumSeq([w \in Workers |-> Len(wresults[w])])
    /\ (phase = "returned" /\ output # Null) =>
           TotalRuns(output.testRuns) = TotalEvents(promise.value)

\* a dataset was built from the results of two jobs, three events in all
C7_Witness ==
    /\ phase = "returned"
    /\ output # Null
    /\ folded = <<1, 1>>
    /\ Len(promise.value) = 2
    /\ TotalRuns(output.testRuns) = 3

\* C8: with no descriptor, processJobsWithWorkers resolves with the empty
\* list in the step of the call, no worker is created and no message is posted.
C8_EmptyResolvesAtOnce ==
    (Len(jobs) = 0 /\ phase = "pool") =>
        /\ promise = [state |-> "fulfilled", value |-> <<>>]
        /\ \A w \in Workers :
             /\ wpc[w] = "none"
             /\ toWorker[w] = <<>>
             /\ toCoordinator[w] = <<>>

\* processJobsWithWorkers was called with an empty list
C8_Witness ==
    /\ Len(jobs) = 0
    /\ phase = "pool"
    /\ promise.state = "fulfilled"

\* C9: for any list of descriptors, the cache entry of a (taskId, retryId)
\* key is read or written by at most one worker.
C9_NoSharedCacheEntry ==
    \A f \in CacheFiles : Cardinality(cacheAccess[f]) <= 1

\* the step in which worker w runs fetchResourceProfile for a job whose cache
\* entry holds the compressed profile p and is not being rewritten by another thread
ReadsValidEntry(w, p) ==
    /\ wpc[w] = "idle"
    /\ toWorker[w] # <<>>
    /\ Head(toWorker[w]).type = "job"
    /\ toWorker'[w] = Tail(toWorker[w])
    /\ JobTaskId(Head(toWorker[w]).job) # ""
    /\ cache[JobCacheFile(Head(toWorker[w]).job)] = Gzip(JSONStringify(p))
    /\ ~WriterOf(JobCacheFile(Head(toWorker[w]).job), w)

\* C10: with a readable, valid cache entry for the key of the job,
\* fetchResourceProfile returns the profile stored in that entry, makes no
\* network request and leaves the cache as it is.
C10_CacheFirst ==
    [][\A w \in Workers, p \in Profiles \cup {ProfileOne} :
         ReadsValidEntry(w, p) =>
             /\ fetched'[w] = [from |-> "cache", value |-> p]
             /\ netRequests' = netRequests
             /\ cache' = cache]_vars

\* a job was answered from the cache, without network request, and its
\* result reached the coordinator
C10_Witness ==
    \E w \in Workers, j \in JobIndexes :
        /\ assignments[j] = <<w>>
        /\ fetched[w] = [from |-> "cache", value |-> ProfileOne]
        /\ netRequests[j] = 0
        /\ folded[j] = 1
        /\ cache[JobCacheFile(jobs[j])] = Gzip(JSONStringify(ProfileOne))

(***************************************************************************)
(* The Artifact Fetcher run by one thread alone                            *)
(*                                                                         *)
(* fetchResourceProfile is called up to MaxFetches times, one call after   *)
(* the other, on a cache directory no other thread touches.  Each call is  *)
(* one step; fetchLog keeps what went in and what came out.                *)
(***************************************************************************)
MaxFetches == 2

\* the (taskId, retryId) pairs the fetcher is called with
FetchKeys == {<<"A", 0>>, <<"A", 1>>, <<"B", 0>>}

FetchFiles == {cacheFileGz(k[1], k[2]) : k \in FetchKeys}

\* bytes that are not a gzip stream
GarbageBytes == [bytes |-> "junk"]

\* what a cache file may hold before the first call
FileContents == {Gzip(JSONStringify(ProfileOne)), Gzip(GarbageText), GarbageBytes}

\* the cache directory before the first call: empty, or one file in it
InitialFetchCaches ==
    {[f \in FetchFiles |-> NoFile]}
    \cup {[f \in FetchFiles |-> IF f = g THEN c ELSE NoFile] : g \in FetchFiles, c \in FileContents}

\* what the network can answer to one request
FetchResponses ==
    {[kind |-> "error"], [kind |-> "notok"],
     [kind |-> "ok", profile |-> ProfileTwo], [kind |-> "ok", profile |-> ProfileEmpty]}

\* a fetchResourceProfile without the try/catch around the cache read
fetchResourceProfileNoReadCatch(files, taskId, retryId, o, written) ==
    LET file   == cacheFileGz(taskId, retryId)
        cached == ReadCache(files, file, FALSE)
    IN  IF ~cached.throws THEN [returned |-> cached, files |-> files, requested |-> FALSE]
        ELSE IF files[file] # NoFile THEN [returned |-> Throw, files |-> files, requested |-> FALSE]
        ELSE [returned |-> FetchResult(o),
              files    |-> IF o.kind = "ok" THEN WriteCache(files, file, o.profile, written) ELSE files,
              requested |-> TRUE]

\* a fetchResourceProfile without the try/catch around the cache write: the
\* exception of writeFileSync reaches the outer catch, which returns null
fetchResourceProfileNoWriteCatch(files, taskId, retryId, o, written) ==
    LET file   == cacheFileGz(taskId, retryId)
        cached == ReadCache(files, file, FALSE)
    IN  IF ~cached.throws THEN [returned |-> cached, files |-> files, requested |-> FALSE]
        ELSE IF o.kind = "ok" /\ written = "failed"
             THEN [returned |-> Return(Null), files |-> files, requested |-> TRUE]
        ELSE [returned |-> FetchResult(o),
              files    |-> IF o.kind = "ok" THEN WriteCache(files, file, o.profile, written) ELSE files,
              requested |-> TRUE]

\* part_005 lines 239-277, the whole call: what it returns, the cache
\* directory it leaves, and whether it sent a network request.  o is what the
\* network answers if asked, written whether writeFileSync succeeds if called.
fetchResourceProfile(files, taskId, retryId, o, written) ==
    LET file   == cacheFileGz(taskId, retryId)
        cached == ReadCache(files, file, FALSE)
    IN  IF ~cached.throws THEN [returned |-> cached, files |-> files, requested |-> FALSE]
        ELSE [returned |-> FetchResult(o),
              files    |-> IF o.kind = "ok" THEN WriteCache(files, file, o.profile, written) ELSE files,
              requested |-> TRUE]

\* what a call leaves in fetchLog
FetchRecord(files, taskId, retryId, o, written, call) ==
    [taskId    |-> taskId,
     retryId   |-> retryId,
     before    |-> files[cacheFileGz(taskId, retryId)],
     requested |-> call.requested,
     response  |-> IF call.requested THEN o ELSE NoValue,
     written   |-> IF call.requested /\ o.kind = "ok" THEN written ELSE "none",
     returned  |-> call.returned,
     after     |-> call.files[cacheFileGz(taskId, retryId)]]

\* one call of fetchResourceProfile(taskId, retryId)
Fetch(taskId, retryId, o, written) ==
    /\ Len(fetchLog) < MaxFetches
    /\ LET call == fetchResourceProfile(cache, taskId, retryId, o, written)
       IN  /\ cache' = call.files
           /\ fetchLog' = Append(fetchLog, FetchRecord(cache, taskId, retryId, o, written, call))
    /\ UNCHANGED <<poolVars, artifact, extraction, encoderInput, encoderState, dataset,
                   progressLog, resourceUsage, historicalToggle>>

FetchInit ==
    /\ PoolIdle
    /\ UnitIdle
    /\ cache \in InitialFetchCaches

FetchNext == \E k \in FetchKeys, o \in FetchResponses, written \in WriteOutcomes : Fetch(k[1], k[2], o, written)

FetchSpec == FetchInit /\ [][FetchNext]_vars

\* what a fetch reads out of a cache file with the given content
ReadEntry(content) == ReadCache([f \in {"entry"} |-> content], "entry", FALSE)

\* call i missed the cache, got the artifact from the network and wrote it
StoredByCall(i) ==
    /\ fetchLog[i].requested
    /\ fetchLog[i].response.kind = "ok"
    /\ fetchLog[i].written = "written"

SameKey(i, j) ==
    fetchLog[i].taskId = fetchLog[j].taskId /\ fetchLog[i].retryId = fetchLog[j].retryId

\* C11: when a call misses the cache, retrieves the artifact from the network
\* and writes the cache entry, the entry of its (taskId, retryId) holds the
\* returned artifact when the call returns, and every later call with the
\* same key returns an equal artifact without a network request.
C11_StoredThenServed ==
    \A i \in 1..Len(fetchLog) :
        StoredByCall(i) =>
            /\ ReadEntry(fetchLog[i].after) = fetchLog[i].returned
            /\ \A j \in (i + 1)..Len(fetchLog) :
                   SameKey(i, j) => /\ ~fetchLog[j].requested
                                    /\ fetchLog[j].returned = fetchLog[i].returned

C11_Witness ==
    \E i, j \in 1..Len(fetchLog) :
        /\ i < j
        /\ StoredByCall(i)
        /\ SameKey(i, j)
        /\ fetchLog[i].returned = Return(ProfileTwo)
        /\ fetchLog[j].returned = Return(ProfileTwo)
        /\ ~fetchLog[j].requested

\* the cache file exists and gunzip or JSON.parse rejects its content
Corrupted(content) == content # NoFile /\ ReadEntry(content).throws

\* C12: a call that finds a corrupted cache entry does not fail: it sends a
\* network request, returns the artifact the network supplied and, when the
\* cache write succeeds, leaves that artifact in place of the corrupted entry.
C12_CorruptedIsMiss ==
    \A i \in 1..Len(fetchLog) :
        Corrupted(fetchLog[i].before) =>
            /\ ~fetchLog[i].returned.throws
            /\ fetchLog[i].requested
            /\ fetchLog[i].response.kind = "ok" =>
                   /\ fetchLog[i].returned = Return(fetchLog[i].response.profile)
                   /\ fetchLog[i].written = "written" =>
                          ReadEntry(fetchLog[i].after) = fetchLog[i].returned

C12_Witness ==
    \E i \in 1..Len(fetchLog) :
        /\ fetchLog[i].before \in {Gzip(GarbageText), GarbageBytes}
        /\ fetchLog[i].requested
        /\ fetchLog[i].returned = Return(ProfileTwo)
        /\ fetchLog[i].after = Gzip(JSONStringify(ProfileTwo))

\* C13: when the network retrieval succeeded and writing the cache entry
\* throws, the call still returns the retrieved artifact: neither null nor an
\* exception.
C13_WriteFailureIgnored ==
    \A i \in 1..Len(fetchLog) :
        (fetchLog[i].requested /\ fetchLog[i].written = "failed") =>
            /\ fetchLog[i].returned = Return(fetchLog[i].response.profile)
            /\ fetchLog[i].returned.value # Null

C13_Witness ==
    \E i \in 1..Len(fetchLog) :
        /\ fetchLog[i].written = "failed"
        /\ fetchLog[i].before = NoFile
        /\ fetchLog[i].after = NoFile
        /\ fetchLog[i].returned = Return(ProfileEmpty)

(***************************************************************************)
(* The Event Extractor run alone                                           *)
(*                                                                         *)
(* extractTestTimings is called up to MaxExtractions times on one artifact *)
(* of up to MaxMarkers markers.  The artifact may lack any of the parts    *)
(* the extractor reads.                                                    *)
(***************************************************************************)
MaxMarkers == 2

MaxExtractions == 2

\* thread.stringArray of the artifacts: markers named "test" have name 0
ArtifactStrings == <<"test", "marker">>

\* test identifiers: manifest and path, and one with a second ':'
IdOneColon == <<"xpcshell.toml", ":", "dom", "/", "test_a", ".js">>

IdTwoColons == <<"xpcshell.toml", ":", "dom", "/", "test_b", ".js", ":", "dom", "/", "test_c", ".js">>

\* start and end of the test markers, in milliseconds since meta.startTime
TestTimes == {<<10, 20>>, <<10, 10>>, <<15, 15>>, <<30, 40>>}

\* the data of structured test markers
TestData ==
    {[type |-> "Test", status |-> "PASS", test |-> IdOneColon],
     [type |-> "Test", status |-> "FAIL", test |-> IdOneColon],
     [type |-> "Test", status |-> "FAIL", color |-> "green", test |-> IdOneColon]}

\* one marker of the marker table: a row of the parallel arrays
Marker(name, time, data) == [name |-> name, startTime |-> time[1], endTime |-> time[2], data |-> data]

MarkerKinds ==
    {Marker(0, t, d) : t \in TestTimes, d \in TestData}
    \cup {Marker(0, <<30, 40>>, [type |-> "Test", status |-> "PASS", test |-> IdTwoColons]),
          Marker(1, <<10, 20>>, [type |-> "Text", text |-> <<"parallel">>]),
          Marker(0, <<50, 60>>, [type |-> "Text", text |-> <<"test_c", ".js">>]),
          Marker(0, <<70, 80>>, [type |-> "Test"]),
          Marker(0, <<90, 95>>, Null)}

\* the object r without its property f
Without(r, f) == [x \in DOMAIN r \ {f} |-> r[x]]

\* the parts of an artifact that extractTestTimings reads
ArtifactParts ==
    {"meta", "threads", "threads[0]", "stringArray", "markers",
     "length", "name", "data", "startTime", "endTime"}

MarkerTable(ms) ==
    [length    |-> Len(ms),
     name      |-> [i \in 1..Len(ms) |-> ms[i].name],
     startTime |-> [i \in 1..Len(ms) |-> ms[i].startTime],
     endTime   |-> [i \in 1..Len(ms) |-> ms[i].endTime],
     data      |-> [i \in 1..Len(ms) |-> ms[i].data]]

\* the artifact with the markers ms, complete or with one part missing
Artifact(ms, missing) ==
    LET markers == IF missing \in {"length", "name", "data", "startTime", "endTime"}
                   THEN Without(MarkerTable(ms), missing) ELSE MarkerTable(ms)
        thread  == IF missing \in {"stringArray", "markers"}
                   THEN Without([stringArray |-> ArtifactStrings, markers |-> markers], missing)
                   ELSE [stringArray |-> ArtifactStrings, markers |-> markers]
        profile == [meta    |-> [startTime |-> 100000],
                    threads |-> IF missing = "threads[0]" THEN <<>> ELSE <<thread>>]
    IN  IF missing \in {"meta", "threads"} THEN Without(profile, missing) ELSE profile

Artifacts ==
    {Artifact(ms, missing) : ms \in SeqsUpTo(MarkerKinds, MaxMarkers), missing \in ArtifactParts \cup {"nothing"}}

\* an extractor that consumes the marker table it has gone through
ExtractConsuming ==
    /\ Len(extraction) < MaxExtractions
    /\ extraction' = Append(extraction, extractTestTimings(artifact, "test-linux/opt-xpcshell"))
    /\ artifact' = Without(artifact, "threads")
    /\ UNCHANGED <<poolVars, cache, fetchLog, encoderInput, encoderState, dataset,
                   progressLog, resourceUsage, historicalToggle>>

\* part_005 line 296: one call of extractTestTimings(profile, jobName); the
\* function assigns to nothing that is reachable from the profile
Extract ==
    /\ Len(extraction) < MaxExtractions
    /\ extraction' = Append(extraction, extractTestTimings(artifact, "test-linux/opt-xpcshell"))
    /\ artifact' = artifact
    /\ UNCHANGED <<poolVars, cache, fetchLog, encoderInput, encoderState, dataset,
                   progressLog, resourceUsage, historicalToggle>>

ExtractInit ==
    /\ PoolIdle
    /\ cache = EmptyCache
    /\ fetchLog = <<>>
    /\ encoderInput = <<>>
    /\ encoderState = NoValue
    /\ dataset = NoValue
    /\ progressLog = <<>>
    /\ resourceUsage = NoValue
    /\ historicalToggle = NoValue
    /\ artifact \in Artifacts
    /\ extraction = <<>>

ExtractNext == Extract

ExtractSpec == ExtractInit /\ [][ExtractNext]_vars

\* the artifact lacks a part the extractor reads
Malformed(profile) ==
    \/ ~Has(profile, "meta")
    \/ ~Has(profile, "threads")
    \/ profile.threads = <<>>
    \/ ~Has(profile.threads[1], "stringArray")
    \/ ~Has(profile.threads[1], "markers")
    \/ \E part \in {"length", "name", "data", "startTime", "endTime"} :
           ~Has(profile.threads[1].markers, part)

\* C14: the extraction of a malformed artifact (a marker array, the marker
\* table, the string table, the thread or meta is missing) returns an empty
\* event list and throws nothing.
C14_MalformedYieldsNothing ==
    \A k \in 1..Len(extraction) : Malformed(artifact) => extraction[k] = Return(<<>>)

(***************************************************************************)
(* Properties of the extractor.  An event is matched with the marker it    *)
(* was made from through its timestamp and duration; the properties speak  *)
(* of the test markers that share their start and end with no other one.   *)
(***************************************************************************)
ArtifactMarkers == artifact.threads[1].markers

MarkerIndexes == 0..(ArtifactMarkers.length - 1)

\* marker i is named "test"
NamedTest(i) == At(ArtifactMarkers.name, i) = IndexOf(artifact.threads[1].stringArray, "test")

\* marker i is a structured test marker with the given status
StructuredTest(i, status) ==
    /\ NamedTest(i)
    /\ DataIsType(At(ArtifactMarkers.data, i), "Test")
    /\ Has(At(ArtifactMarkers.data, i), "status")
    /\ At(ArtifactMarkers.data, i).status = status

AloneAtItsTime(i) ==
    \A j \in MarkerIndexes \ {i} :
        NamedTest(j) => \/ At(ArtifactMarkers.startTime, j) # At(ArtifactMarkers.startTime, i)
                        \/ At(ArtifactMarkers.endTime, j) # At(ArtifactMarkers.endTime, i)

\* the events of the k-th extraction that carry the times of marker i
EventsOf(k, i) ==
    {e \in Range(extraction[k].value) :
        /\ e.timestamp = artifact.meta.startTime + At(ArtifactMarkers.startTime, i)
        /\ e.duration = At(ArtifactMarkers.endTime, i) - At(ArtifactMarkers.startTime, i)}

\* the time ranges of the markers of type "Text" with the text "parallel"
ParallelMarkers ==
    {i \in MarkerIndexes : /\ DataIsType(At(ArtifactMarkers.data, i), "Text")
                           /\ Has(At(ArtifactMarkers.data, i), "text")
                           /\ At(ArtifactMarkers.data, i).text = <<"parallel">>}

\* C15: every event made from a structured test marker with status FAIL and
\* colour green has the status EXPECTED-FAIL, without -PARALLEL or
\* -SEQUENTIAL, whether or not the artifact holds parallel markers.
C15_ExpectedFailUnsuffixed ==
    \A k \in 1..Len(extraction) :
        ~Malformed(artifact) =>
            \A i \in MarkerIndexes :
                (/\ StructuredTest(i, "FAIL")
                 /\ Has(At(ArtifactMarkers.data, i), "color")
                 /\ At(ArtifactMarkers.data, i).color = "green"
                 /\ AloneAtItsTime(i))
                => /\ ~extraction[k].throws
                   /\ \A e \in EventsOf(k, i) : e.status = "EXPECTED-FAIL"

C15_Witness ==
    /\ ~Malformed(artifact)
    /\ Len(extraction) > 0
    /\ ParallelMarkers # {}
    /\ \E i \in MarkerIndexes :
           /\ StructuredTest(i, "FAIL")
           /\ Has(At(ArtifactMarkers.data, i), "color")
           /\ At(ArtifactMarkers.data, i).color = "green"
           /\ At(ArtifactMarkers.startTime, i) = 10
           /\ At(ArtifactMarkers.endTime, i) = 20
           /\ \E e \in EventsOf(1, i) : e.status = "EXPECTED-FAIL"

\* the time range of test marker i lies inside that of parallel marker r, boundaries included
InsideRange(i, r) ==
    /\ At(ArtifactMarkers.startTime, r) <= At(ArtifactMarkers.startTime, i)
    /\ At(ArtifactMarkers.endTime, i) <= At(ArtifactMarkers.endTime, r)

\* the two time ranges have no instant in common
OutsideRange(i, r) ==
    \/ At(ArtifactMarkers.endTime, i) < At(ArtifactMarkers.startTime, r)
    \/ At(ArtifactMarkers.endTime, r) < At(ArtifactMarkers.startTime, i)

\* C16: an event made from a PASS marker has the status PASS-PARALLEL when
\* the marker's time range lies inside a parallel marker's range (boundaries
\* and zero-duration tests included), PASS-SEQUENTIAL when it is outside
\* every parallel range, and PASS when the artifact has no parallel marker.
C16_PassSuffix ==
    \A k \in 1..Len(extraction) :
        ~Malformed(artifact) =>
            \A i \in MarkerIndexes :
                (StructuredTest(i, "PASS") /\ AloneAtItsTime(i)) =>
                    \A e \in EventsOf(k, i) :
                        /\ (\E r \in ParallelMarkers : InsideRange(i, r)) => e.status = "PASS-PARALLEL"
                        /\ (ParallelMarkers # {} /\ \A r \in ParallelMarkers : OutsideRange(i, r))
                               => e.status = "PASS-SEQUENTIAL"
                        /\ ParallelMarkers = {} => e.status = "PASS"

\* the text after the last occurrence of the separator
SuffixAfterLast(str, sep) == SubSeq(str, LastIndexOf(str, sep) + 2, Len(str))

\* C17: an event made from a structured test marker whose identifier holds one
\* or more ':' has as its path the text after the last ':' of the identifier.
C17_PathAfterLastColon ==
    \A k \in 1..Len(extraction) :
        ~Malformed(artifact) =>
            \A i \in MarkerIndexes :
                (/\ NamedTest(i)
                 /\ DataIsType(At(ArtifactMarkers.data, i), "Test")
                 /\ Has(At(ArtifactMarkers.data, i), "test")
                 /\ ":" \in Range(At(ArtifactMarkers.data, i).test)
                 /\ AloneAtItsTime(i))
                => \A e \in EventsOf(k, i) :
                       e.path = SuffixAfterLast(At(ArtifactMarkers.data, i).test, ":")

MaxResults == 2

\* the events of the job results
PathA == <<"dom", "/", "test_a", ".js">>

PathB == <<"dom", "/", "unit", "/", "test_b", ".js">>

PathC == <<"test_c", ".js">>

PathD == <<"netwerk", "/", "test_a", ".js">>

EventPass == [path |-> PathA, duration |-> 240, status |-> "PASS", timestamp |-> 200010]

EventFail == [path |-> PathD, duration |-> 15, status |-> "FAIL-PARALLEL", timestamp |-> 200300]

EventSkip == [path |-> PathB, duration |-> 0, status |-> "SKIP", timestamp |-> 152000,
              message |-> <<"skip-if", "\n", "os">>]

EventSkipSilent == [path |-> PathC, duration |-> 0, status |-> "SKIP", timestamp |-> 152500]

EventCrash == [path |-> PathA, duration |-> 880, status |-> "CRASH", timestamp |-> 150020,
               crashSignature |-> "sig", minidump |-> "dump"]

EventCrashBare == [path |-> PathC, duration |-> 7, status |-> "CRASH", timestamp |-> 150900]

\* a second PASS of the test of EventPass, earlier in the day
EventPassEarly == [path |-> PathA, duration |-> 99, status |-> "PASS", timestamp |-> 150700]

\* a second SKIP of the test of EventSkip, later in the day and without message
EventSkipBare == [path |-> PathB, duration |-> 1, status |-> "SKIP", timestamp |-> 153000]

\* a path that starts with the separator
EventRooted == [path |-> <<"/", "test_c", ".js">>, duration |-> 30, status |-> "PASS",
                timestamp |-> 180000]

\* the timings of one job result
TimingLists ==
    {<<EventPass>>, <<EventSkip>>, <<EventPass, EventFail>>, <<EventSkip, EventSkipSilent>>,
     <<EventSkipBare, EventSkip>>, <<EventCrash, EventCrashBare>>, <<EventPass, EventPassEarly>>,
     <<EventRooted>>}

\* what processJob returns (lines 308-316), null included
JobResults ==
    {[jobName |-> j[1], repository |-> j[2], taskId |-> j[3], retryId |-> j[4],
      startTime |-> 170, timings |-> t] :
        j \in {<<"test-linux/opt-xpcshell", "mozilla-central", "A", 0>>,
               <<"test-linux/opt-xpcshell", "mozilla-central", "A", 1>>,
               <<"test-linux/opt-xpcshell", "autoland", "B", 0>>,
               <<"test-windows/opt-xpcshell", "autoland", "A", 0>>},
        t \in TimingLists}
    \cup {Null}

\* one iteration of "for (const result of jobResults)"
Fold(result) ==
    /\ dataset = NoValue
    /\ Len(encoderInput) < MaxResults
    /\ encoderInput' = Append(encoderInput, result)
    /\ encoderState' = FoldResult(encoderState, result)
    /\ UNCHANGED <<poolVars, cache, fetchLog, artifact, extraction, dataset,
                   progressLog, resourceUsage, historicalToggle>>

\* part_001 lines 369-484: the loop is over; createDataTables returns and
\* processJobsAndCreateData makes the dataset out of the returned structure
Emit ==
    /\ dataset = NoValue
    /\ dataset' = Dataset(encoderInput, encoderInput, StartOfDay, [date |-> "day"],
                          DataStructure(encoderState))
    /\ UNCHANGED <<poolVars, cache, fetchLog, artifact, extraction, encoderInput, encoderState,
                   progressLog, resourceUsage, historicalToggle>>

\* lines 225-265: the empty tables and maps
EncodeInit ==
    /\ PoolIdle
    /\ cache = EmptyCache
    /\ fetchLog = <<>>
    /\ artifact = NoValue
    /\ extraction = <<>>
    /\ encoderInput = <<>>
    /\ encoderState = EmptyData
    /\ dataset = NoValue
    /\ progressLog = <<>>
    /\ resourceUsage = NoValue
    /\ historicalToggle = NoValue

EncodeNext ==
    \/ \E result \in JobResults : Fold(result)
    \/ Emit

EncodeSpec == EncodeInit /\ [][EncodeNext]_vars

(***************************************************************************)
(* Properties of the encoder.  The strings createDataTables looks up are   *)
(* read off the job results it has iterated over, in iteration order.      *)
(***************************************************************************)
TableNames == DOMAIN EmptyTables

\* the job results the outer loop does not skip (line 281)
Iterated(jobResults) == SelectSeq(jobResults, LAMBDA r : r # Null /\ Has(r, "timings"))

\* the (result, timing) pairs of the inner loop, in iteration order
RECURSIVE TimingsIterated(_)
TimingsIterated(jobResults) ==
    IF jobResults = <<>> THEN <<>>
    ELSE [i \in 1..Len(Head(jobResults).timings) |->
             [result |-> Head(jobResults), timing |-> Head(jobResults).timings[i]]]
         \o TimingsIterated(Tail(jobResults))

HasMessage(run) ==
    run.timing.status = "SKIP" /\ Has(run.timing, "message") /\ run.timing.message # <<>>

HasCrashSignature(run) ==
    run.timing.status = "CRASH" /\ Has(run.timing, "crashSignature") /\ run.timing.crashSignature # ""

MapSeq(s, Op(_)) == [i \in 1..Len(s) |-> Op(s[i])]

DirectoryOf(run) == SplitPath(run.timing.path, LastIndexOf(run.timing.path, "/")).testPath

FileNameOf(run) == SplitPath(run.timing.path, LastIndexOf(run.timing.path, "/")).testName

\* the strings of one category in the order in which the iteration meets them
StringsMet(name, jobResults) ==
    LET runs == TimingsIterated(Iterated(jobResults))
    IN  CASE name = "jobNames"        -> MapSeq(Iterated(jobResults), LAMBDA r : r.jobName)
          [] name = "repositories"    -> MapSeq(Iterated(jobResults), LAMBDA r : r.repository)
          [] name = "testPaths"       -> MapSeq(runs, DirectoryOf)
          [] name = "testNames"       -> MapSeq(runs, FileNameOf)
          [] name = "statuses"        -> MapSeq(runs, LAMBDA run : StatusOf(run.timing))
          [] name = "taskIds"         -> MapSeq(runs, LAMBDA run : TaskIdString(run.result))
          [] name = "messages"        -> MapSeq(SelectSeq(runs, HasMessage), LAMBDA run : run.timing.message)
          [] name = "crashSignatures" -> MapSeq(SelectSeq(runs, HasCrashSignature),
                                                LAMBDA run : run.timing.crashSignature)

\* the distinct elements of a sequence, each at the place of its first occurrence
RECURSIVE FirstSeen(_)
FirstSeen(s) ==
    IF s = <<>> THEN <<>>
    ELSE LET front == FirstSeen(SubSeq(s, 1, Len(s) - 1))
         IN  IF Last(s) \in Range(front) THEN front ELSE Append(front, Last(s))

IsPrefix(s, t) == Len(s) <= Len(t) /\ SubSeq(t, 1, Len(s)) = s

ValidIndex(id, table) == id \in 0..(Len(table) - 1)

\* the ids of a status group resolve; a null messageId or crashSignatureId is NoId
GroupResolves(group, tables) ==
    /\ \A n \in 1..Len(group.taskIdIds) : ValidIndex(group.taskIdIds[n], tables.taskIds)
    /\ Has(group, "messageIds") =>
           \A n \in 1..Len(group.messageIds) :
               group.messageIds[n] # NoId => ValidIndex(group.messageIds[n], tables.messages)
    /\ Has(group, "crashSignatureIds") =>
           \A n \in 1..Len(group.crashSignatureIds) :
               group.crashSignatureIds[n] # NoId
                   => ValidIndex(group.crashSignatureIds[n], tables.crashSignatures)

\* the structure createDataTables would return after the iterations so far
Encoded == DataStructure(encoderState)

\* C20: in the encoded data taskInfo has one defined repositoryId and one
\* defined jobNameId per entry of tables.taskIds, testInfo one testPathId and
\* one testNameId per testId, each of them a valid index into its table; in
\* testRuns every testId and every statusId in use is a valid index, and so
\* is every taskIdId, non-null messageId and non-null crashSignatureId of a
\* status group.
C20_IdsResolve ==
    /\ Len(Encoded.taskInfo.repositoryIds) = Len(Encoded.tables.taskIds)
    /\ Len(Encoded.taskInfo.jobNameIds) = Len(Encoded.tables.taskIds)
    /\ \A n \in 1..Len(Encoded.tables.taskIds) :
           /\ ValidIndex(Encoded.taskInfo.repositoryIds[n], Encoded.tables.repositories)
           /\ ValidIndex(Encoded.taskInfo.jobNameIds[n], Encoded.tables.jobNames)
    /\ Len(Encoded.testInfo.testPathIds) = Len(Encoded.testInfo.testNameIds)
    /\ \A n \in 1..Len(Encoded.testInfo.testPathIds) :
           /\ ValidIndex(Encoded.testInfo.testPathIds[n], Encoded.tables.testPaths)
           /\ ValidIndex(Encoded.testInfo.testNameIds[n], Encoded.tables.testNames)
    /\ Len(Encoded.testRuns) <= Len(Encoded.testInfo.testPathIds)
    /\ \A t \in 1..Len(Encoded.testRuns) :
           /\ Len(Encoded.testRuns[t]) <= Len(Encoded.tables.statuses)
           /\ \A s \in 1..Len(Encoded.testRuns[t]) :
                  Encoded.testRuns[t][s] # Null => GroupResolves(Encoded.testRuns[t][s], Encoded.tables)

C20_Witness ==
    /\ Len(Encoded.tables.taskIds) = 2
    /\ Encoded.taskInfo.repositoryIds = <<0, 1>>
    /\ Encoded.taskInfo.jobNameIds = <<0, 0>>
    /\ \E t \in 1..Len(Encoded.testRuns) :
           /\ Len(Encoded.testRuns[t]) = 3
           /\ Encoded.testRuns[t][1] = Null
           /\ Encoded.testRuns[t][3] # Null
           /\ Has(Encoded.testRuns[t][3], "messageIds")
           /\ Encoded.testRuns[t][3].messageIds = <<0>>
           /\ Encoded.testRuns[t][3].taskIdIds = <<1>>
    /\ \E t \in 1..Len(Encoded.testRuns) :
           /\ Len(Encoded.testRuns[t]) = 3
           /\ Encoded.testRuns[t][3] # Null
           /\ Has(Encoded.testRuns[t][3], "messageIds")
           /\ Encoded.testRuns[t][3].messageIds = <<NoId>>

(***************************************************************************)
(* Properties of the emitted dataset.                                      *)
(***************************************************************************)
Emitted == dataset # NoValue /\ dataset # Null

Occurrences(s, x) == Cardinality({i \in 1..Len(s) : s[i] = x})

\* how often the status groups of data refer to id in the array called field
GroupUses(data, field, id) ==
    SumSeq([t \in 1..Len(data.testRuns) |->
              SumSeq([s \in 1..Len(data.testRuns[t]) |->
                        IF data.testRuns[t][s] # Null /\ Has(data.testRuns[t][s], field)
                        THEN Occurrences(data.testRuns[t][s][field], id) ELSE 0])])

\* the runs recorded under the status id
StatusUses(data, id) ==
    SumSeq([t \in 1..Len(data.testRuns) |->
              IF id < Len(data.testRuns[t]) /\ At(data.testRuns[t], id) # Null
              THEN Len(At(data.testRuns[t], id).taskIdIds) ELSE 0])

\* how often data refers to the string id of the table called name
Uses(data, name, id) ==
    CASE name = "jobNames"        -> Occurrences(data.taskInfo.jobNameIds, id)
      [] name = "repositories"    -> Occurrences(data.taskInfo.repositoryIds, id)
      [] name = "testPaths"       -> Occurrences(data.testInfo.testPathIds, id)
      [] name = "testNames"       -> Occurrences(data.testInfo.testNameIds, id)
      [] name = "statuses"        -> StatusUses(data, id)
      [] name = "taskIds"         -> GroupUses(data, "taskIdIds", id)
      [] name = "messages"        -> GroupUses(data, "messageIds", id)
      [] name = "crashSignatures" -> GroupUses(data, "crashSignatureIds", id)

\* C21: in every string table of the emitted dataset a string used more
\* often than another comes before it (the tables are sorted by usage
\* frequency, most used first).
C21_FrequencySorted ==
    Emitted =>
        \A name \in TableNames :
            \A a, b \in 0..(Len(dataset.tables[name]) - 1) :
                a < b => Uses(dataset, name, a) >= Uses(dataset, name, b)

\* the dataset of a SKIP from one task followed by two PASS from another
C21_Reached ==
    /\ Emitted
    /\ Len(encoderInput) = 2
    /\ dataset.tables.statuses = <<"SKIP", "PASS">>
    /\ StatusUses(dataset, 0) = 1
    /\ StatusUses(dataset, 1) = 2

\* the (testPath, testName) pair the tables give for a testId
PairOf(data, testId) ==
    <<At(data.tables.testPaths, At(data.testInfo.testPathIds, testId)),
      At(data.tables.testNames, At(data.testInfo.testNameIds, testId))>>

TestIds(data) == 0..(Len(data.testInfo.testPathIds) - 1)

\* the directory and file name of every event iterated over
PairsMet(jobResults) ==
    {<<DirectoryOf(run), FileNameOf(run)>> : run \in Range(TimingsIterated(Iterated(jobResults)))}

\* C22: the test index is a bijection between the (testPath, testName) pairs
\* met and the dense testIds 0..k-1: every pair met has exactly one testId,
\* and no two testIds carry the same (testPathId, testNameId).
C22_TestIndexBijection ==
    /\ Len(Encoded.testInfo.testNameIds) = Len(Encoded.testInfo.testPathIds)
    /\ \A pair \in PairsMet(encoderInput) :
           Cardinality({t \in TestIds(Encoded) : PairOf(Encoded, t) = pair}) = 1
    /\ \A t, u \in TestIds(Encoded) :
           /\ At(Encoded.testInfo.testPathIds, t) = At(Encoded.testInfo.testPathIds, u)
           /\ At(Encoded.testInfo.testNameIds, t) = At(Encoded.testInfo.testNameIds, u)
           => t = u

\* "test_c.js" and "/test_c.js" have been iterated over
C22_Reached ==
    /\ Len(encoderInput) = 2
    /\ encoderState.testIdMap = <<PathB, PathC, <<"/", "test_c", ".js">>>>
    /\ PairOf(Encoded, 1) = PairOf(Encoded, 2)

\* the events iterated over whose test has testId and whose status has statusId
EventsFolded(testId, statusId) ==
    SelectSeq(TimingsIterated(Iterated(encoderInput)),
              LAMBDA run : /\ run.timing.path = At(encoderState.testIdMap, testId)
                           /\ StatusOf(run.timing) = At(encoderState.tables.statuses, statusId))

\* testRuns[testId][statusId] is an object, neither a hole nor past the end
Present(testRuns, testId, statusId) ==
    /\ testId < Len(testRuns)
    /\ statusId < Len(At(testRuns, testId))
    /\ At(At(testRuns, testId), statusId) # Null

\* the claim of C23 for one testRuns array
HolesExactly(testRuns) ==
    \A testId \in 0..(Len(encoderState.testIdMap) - 1) :
        \A statusId \in 0..(Len(encoderState.tables.statuses) - 1) :
            /\ Present(testRuns, testId, statusId) <=> EventsFolded(testId, statusId) # <<>>
            /\ Present(testRuns, testId, statusId) =>
                   Len(At(At(testRuns, testId), statusId).taskIdIds) >= 1

\* C23: testRuns[t][s] is absent (a hole, null, or past the end of the row)
\* exactly when no event with testId t and statusId s was folded, and a
\* status group that is present is never empty; in the structure
\* createDataTables builds and in the emitted dataset.
C23_HolesExactly ==
    /\ HolesExactly(Encoded.testRuns)
    /\ Emitted => HolesExactly(dataset.testRuns)

\* an emitted dataset with a hole before a group, a row that ends before the
\* last status, and a group of two runs
C23_Witness ==
    /\ Emitted
    /\ Len(encoderState.tables.statuses) = 3
    /\ \E t \in 1..Len(dataset.testRuns) :
           /\ Len(dataset.testRuns[t]) = 3
           /\ dataset.testRuns[t][1] = Null
           /\ dataset.testRuns[t][2] = Null
           /\ dataset.testRuns[t][3] # Null
    /\ \E t \in 1..Len(dataset.testRuns) :
           /\ Len(dataset.testRuns[t]) = 1
           /\ Len(dataset.testRuns[t][1].taskIdIds) = 2

\* decoding: the running sums of the stored differences
Decode(timestamps) == [i \in 1..Len(timestamps) |-> SumSeq(SubSeq(timestamps, 1, i))]

Ascending(s) == \A i \in 1..(Len(s) - 1) : s[i] <= s[i + 1]

\* s and t hold the same values the same number of times
SameValues(s, t) ==
    /\ Len(s) = Len(t)
    /\ \A v \in Range(s) \cup Range(t) : Occurrences(s, v) = Occurrences(t, v)

\* the groups of the emitted dataset, as <<testId, statusId>>
GroupsEmitted ==
    {g \in (0..(Len(encoderState.testIdMap) - 1)) \X (0..(Len(encoderState.tables.statuses) - 1)) :
        Present(dataset.testRuns, g[1], g[2])}

GroupEmitted(g) == At(At(dataset.testRuns, g[1]), g[2])

\* the timestamps of the events of a group as extractTestTimings produced them
OriginalTimestamps(g) == MapSeq(EventsFolded(g[1], g[2]), LAMBDA run : run.timing.timestamp)

\* the same in whole seconds after metadata.startTime
RelativeSeconds(g) ==
    MapSeq(EventsFolded(g[1], g[2]),
           LAMBDA run : (run.timing.timestamp \div 1000) - dataset.metadata.startTime)

\* C24 as stated: the running sums of a group's stored timestamps are the
\* original absolute timestamps of the group's events, in ascending order.
C24_DecodesOriginal ==
    Emitted =>
        \A g \in GroupsEmitted :
            /\ Ascending(Decode(GroupEmitted(g).timestamps))
            /\ SameValues(Decode(GroupEmitted(g).timestamps), OriginalTimestamps(g))

\* C24 amended: the running sums of a group's stored timestamps are, in
\* ascending order, the timestamps of the group's events in whole seconds
\* (milliseconds divided by 1000, rounded down) after metadata.startTime.
C24_DecodesRelativeSeconds ==
    Emitted =>
        \A g \in GroupsEmitted :
            /\ Ascending(Decode(GroupEmitted(g).timestamps))
            /\ SameValues(Decode(GroupEmitted(g).timestamps), RelativeSeconds(g))

\* a group of two runs folded latest first, stored as <<t0, t1 - t0>>
C24_Witness ==
    /\ Emitted
    /\ \E g \in GroupsEmitted :
           /\ OriginalTimestamps(g) = <<200010, 150700>>
           /\ GroupEmitted(g).timestamps = <<50, 50>>
           /\ Decode(GroupEmitted(g).timestamps) = <<50, 100>>

\* an id of a side channel resolved through its table; null stays null
Resolved(table, id) == IF id = NoId THEN Null ELSE [string |-> At(table, id)]

\* run i of a status group with its ids resolved
ResolvedRun(data, group, i) ==
    [task |-> At(data.tables.taskIds, group.taskIdIds[i]),
     duration |-> group.durations[i],
     delta |-> group.timestamps[i]]
    @@ Opt(Has(group, "messageIds"),
           [message |-> Resolved(data.tables.messages, group.messageIds[i])])
    @@ Opt(Has(group, "crashSignatureIds"),
           [crashSignature |-> Resolved(data.tables.crashSignatures, group.crashSignatureIds[i])])
    @@ Opt(Has(group, "minidumps"), [minidump |-> group.minidumps[i]])

ResolvedRuns(data, group) ==
    [i \in 1..Len(group.taskIdIds) |-> ResolvedRun(data, group, i)]

\* every status group of data as <<test, status, resolved runs>>
ResolvedGroups(data) ==
    IF data = Null THEN {}
    ELSE {<<PairOf(data, g[1]), At(data.tables.statuses, g[2]),
            ResolvedRuns(data, At(At(data.testRuns, g[1]), g[2]))>> :
             g \in {h \in (0..(Len(data.testRuns) - 1)) \X (0..(Len(data.tables.statuses) - 1)) :
                       Present(data.testRuns, h[1], h[2])}}

\* the orders in which a sequence can be given
Reordered(s) ==
    {[i \in 1..Len(s) |-> s[p[i]]] :
        p \in {q \in [1..Len(s) -> 1..Len(s)] : \A i, j \in 1..Len(s) : q[i] = q[j] => i = j}}

\* a job result with its events in any order
WithinJob(result) ==
    IF result = Null THEN {Null}
    ELSE {[result EXCEPT !.timings = timings] : timings \in Reordered(result.timings)}

\* the job results in any order, the events of each in any order
Orders(jobResults) ==
    UNION {{[i \in 1..Len(r) |-> q[i]] :
               q \in {f \in [1..Len(r) -> UNION {WithinJob(r[i]) : i \in 1..Len(r)}] :
                         \A i \in 1..Len(r) : f[i] \in WithinJob(r[i])}} :
           r \in Reordered(jobResults)}

\* what processJobsAndCreateData returns for the job results in the given order
Encoding(jobResults) == CreateData(jobResults, jobResults, StartOfDay, [date |-> "day"])

\* C25: the encoding is deterministic in content: whatever the order of the
\* job results and of the events within each, every (test, status) group of
\* the output has the same sequence of task, duration, timestamp delta and
\* side-channel values once the ids are resolved, also when several events
\* share a timestamp.
C25_OrderIndependent ==
    Emitted =>
        \A other \in Orders(encoderInput) :
            ResolvedGroups(Encoding(other)) = ResolvedGroups(dataset)

\* the same test passed in two tasks at the same time; the emitted group
\* lists the tasks in the order of the job results
C25_Reached ==
    /\ Emitted
    /\ Len(encoderInput) = 2
    /\ \E g \in ResolvedGroups(dataset) :
           /\ Len(g[3]) = 2
           /\ g[3][1].task = "A.0"
           /\ g[3][2].task = "B.0"
           /\ g[3][2].delta = 0
    /\ \E g \in ResolvedGroups(Encoding(<<encoderInput[2], encoderInput[1]>>)) :
           /\ Len(g[3]) = 2
           /\ g[3][1].task = "B.0"
           /\ g[3][2].task = "A.0"

\* the SKIP groups of the emitted dataset
SkipGroups == {g \in GroupsEmitted : At(dataset.tables.statuses, g[2]) = "SKIP"}

\* run i of an emitted group: its task, duration, time and message
RunWithMessage(group, i) ==
    <<At(dataset.tables.taskIds, group.taskIdIds[i]), group.durations[i],
      Decode(group.timestamps)[i], Resolved(dataset.tables.messages, group.messageIds[i])>>

\* the same of an event iterated over; an event without message has null
EventWithMessage(run) ==
    <<TaskIdString(run.result), MathRound(run.timing.duration),
      (run.timing.timestamp \div 1000) - dataset.metadata.startTime,
      IF HasMessage(run) THEN [string |-> run.timing.message] ELSE Null>>

\* C26: in a SKIP group of the emitted dataset messageIds has one entry per
\* run, and the entry of a run is the messages-table id of the message of
\* the event the run stands for, or null when that event has no message.
C26_MessageIdsAligned ==
    Emitted =>
        \A g \in SkipGroups :
            /\ Has(GroupEmitted(g), "messageIds")
            /\ Len(GroupEmitted(g).messageIds) = Len(GroupEmitted(g).taskIdIds)
            /\ \A i \in 1..Len(GroupEmitted(g).messageIds) :
                   \/ GroupEmitted(g).messageIds[i] = NoId
                   \/ ValidIndex(GroupEmitted(g).messageIds[i], dataset.tables.messages)
            /\ SameValues([i \in 1..Len(GroupEmitted(g).taskIdIds) |-> RunWithMessage(GroupEmitted(g), i)],
                          MapSeq(EventsFolded(g[1], g[2]), EventWithMessage))

\* a SKIP without message iterated before an earlier SKIP of the same test
\* with a message: the group has messageIds = [msgIdx, null]
C26_Witness ==
    /\ Emitted
    /\ \E g \in SkipGroups :
           /\ Len(EventsFolded(g[1], g[2])) = 2
           /\ ~HasMessage(EventsFolded(g[1], g[2])[1])
           /\ HasMessage(EventsFolded(g[1], g[2])[2])
           /\ GroupEmitted(g).messageIds =
                  <<IndexOf(dataset.tables.messages, EventSkip.message), NoId>>
           /\ GroupEmitted(g).durations = <<0, 1>>

(***************************************************************************)
(* Properties of the caller of the pool                                    *)
(***************************************************************************)

\* the call has returned without a single event to encode: there was no
\* job, or the pool resolved with results that hold no event
NothingExtracted ==
    \/ Len(jobs) = 0
    \/ promise.state = "fulfilled" /\ TotalEvents(promise.value) = 0

\* C27: an empty result is not an error and gives no dataset: with no job,
\* or with no event extracted from any job, processJobsAndCreateData returns
\* null (it does not throw) and no dataset file is written; with at least
\* one event it returns a dataset.
C27_EmptyIsNull ==
    /\ phase = "returned" =>
           /\ output = Null <=> NothingExtracted
           /\ output = Null => datasetFile = NoFile
    /\ (phase = "failed") => ~NothingExtracted

\* two jobs were processed by the pool and none gave an event
C27_Witness ==
    /\ phase = "returned"
    /\ Len(jobs) = 2
    /\ completedJobs = 2
    /\ promise.state = "fulfilled"
    /\ promise.value = <<>>
    /\ output = Null
    /\ datasetFile = NoFile

\* C28: when a worker fault aborts the batch no partial dataset is emitted:
\* the pool's promise is rejected and stays so, the encoder is never run on
\* the results collected before the fault, no dataset file is written, and
\* the call ends as a failure, never as a return with a dataset.
C28_NoPartialDataset ==
    /\ faulted =>
           /\ promise.state = "rejected"
           /\ output = NoValue
           /\ datasetFile = NoFile
           /\ phase \in {"pool", "failed"}
    /\ phase = "failed" => faulted

\* the batch failed after one job had been completed and its result collected
C28_Witness ==
    /\ phase = "failed"
    /\ faulted
    /\ Len(jobs) = 2
    /\ Len(results) = 1
    /\ TotalEvents(results) > 0
    /\ output = NoValue
    /\ datasetFile = NoFile

\* the messages of one worker follow ready (job jobComplete)* shutdown finished,
\* or a beginning of it
FollowsProtocol(trace) ==
    \A i \in 1..Len(trace) :
        IF i = 1 THEN trace[i] = "ready"
        ELSE CASE trace[i] = "job"         -> trace[i - 1] \in {"ready", "jobComplete"}
               [] trace[i] = "jobComplete" -> trace[i - 1] = "job"
               [] trace[i] = "shutdown"    -> trace[i - 1] \in {"ready", "jobComplete"}
               [] trace[i] = "finished"    -> trace[i - 1] = "shutdown"
               [] OTHER                    -> FALSE

\* the coordinator posts a message to worker w in this step
PostsTo(w) == toWorker'[w] # toWorker[w] /\ Len(toWorker'[w]) > Len(toWorker[w])

\* the coordinator handles a 'ready' or a 'jobComplete' of worker w in this step
Answers(w) ==
    /\ Receives(w, "ready") \/ Receives(w, "jobComplete")
    /\ toCoordinator'[w] = Tail(toCoordinator[w])

\* the jobs posted to worker w whose jobComplete the coordinator has not handled
Outstanding(w) ==
    Occurrences(protocol[w], "job") - workerStates[w].jobsProcessed

\* C29: the messages exchanged with each worker follow
\* ready -> (job, jobComplete)* -> shutdown -> finished; the coordinator posts
\* a job or a shutdown to a worker only in the step in which it handles that
\* worker's ready or jobComplete, one message per step, so a worker never has
\* more than one job outstanding, gets no job after shutdown and no second
\* shutdown; when the pool has resolved, every worker got exactly one
\* shutdown and sent exactly one finished.
C29_WorkerProtocol ==
    /\ [](\A w \in Workers :
            /\ FollowsProtocol(protocol[w])
            /\ Outstanding(w) \in {0, 1}
            /\ Occurrences(protocol[w], "shutdown") <= 1
            /\ Occurrences(protocol[w], "finished") <= 1)
    /\ [](promise.state = "fulfilled" /\ Len(jobs) > 0 =>
            \A w \in 1..MAX_WORKERS :
                /\ Occurrences(protocol[w], "shutdown") = 1
                /\ Occurrences(protocol[w], "finished") = 1
                /\ Last(protocol[w]) = "finished")
    /\ [][\A w \in Workers :
            PostsTo(w) => /\ Answers(w)
                          /\ Len(toWorker'[w]) = Len(toWorker[w]) + 1]_vars

\* the pool resolved after one worker did both jobs and the other one was
\* told to shut down on its 'ready'
C29_Witness ==
    /\ promise.state = "fulfilled"
    /\ MAX_WORKERS = 2
    /\ protocol[1] = <<"ready", "job", "jobComplete", "job", "jobComplete", "shutdown", "finished">>
    /\ protocol[2] = <<"ready", "shutdown", "finished">>

\* the coordinator handles the 'exit' event of a terminated worker in this step
HandlesExitOfTerminated(w) ==
    /\ wpc[w] = "terminated"
    /\ toCoordinator[w] # <<>>
    /\ Head(toCoordinator[w]).event = "exit"
    /\ Head(toCoordinator[w]).code # 0
    /\ toCoordinator'[w] = Tail(toCoordinator[w])

\* C30: the outcome of the pool is settled exactly once: it is a success only
\* when all MAX_WORKERS workers have sent 'finished', a success is not turned
\* into a failure by the non-zero 'exit' events of the workers terminated
\* afterwards, and a failure is not turned into a success by 'finished'
\* messages that arrive later.
C30_SettledOnce ==
    /\ [][promise.state # "pending" => promise' = promise]_vars
    /\ [](promise.state = "fulfilled" /\ Len(jobs) > 0 =>
            /\ workersFinished = MAX_WORKERS
            /\ \A w \in 1..MAX_WORKERS : Occurrences(protocol[w], "finished") = 1)
    /\ [][\A w \in Workers :
            promise.state = "fulfilled" /\ HandlesExitOfTerminated(w) =>
                promise'.state = "fulfilled"]_vars
    /\ [][\A w \in Workers :
            promise.state = "rejected" /\ Receives(w, "finished") =>
                promise'.state = "rejected"]_vars

\* the pool resolved, both workers were terminated and the coordinator has
\* handled their 'exit' events with code 1
C30_Witness ==
    /\ promise.state = "fulfilled"
    /\ MAX_WORKERS = 2
    /\ Len(jobs) = 2
    /\ \A w \in Workers : wpc[w] = "terminated" /\ toCoordinator[w] = <<>>
    /\ phase = "returned"

(***************************************************************************)
(* The progress report run alone                                           *)
(*                                                                         *)
(* The 'jobComplete' handler counts a completion, reads the clock and      *)
(* decides on the report (part_001 lines 144-159), for up to               *)
(* MaxCompletions jobs; a step is one completion.  progressLog keeps the   *)
(* time read and the decision taken.                                       *)
(***************************************************************************)
MaxCompletions == 4

\* the time between two completions, in ms
ProgressElapsed == {0, 400, 600, 1000}

\* lines 144-159 of the 'jobComplete' handler, dt ms after the previous completion
Progress(dt) ==
    /\ completedJobs < Len(jobs)
    /\ LET sinceLast == Min(sinceProgress + dt, LongAgo)
           show      == ProgressShown(completedJobs + 1, Len(jobs), sinceLast)
       IN  /\ completedJobs' = completedJobs + 1
           /\ sinceProgress' = IF show THEN 0 ELSE sinceLast
           /\ progressLog' = Append(progressLog, [elapsed |-> dt, shown |-> show])
    /\ UNCHANGED <<jobs, MAX_WORKERS, jobQueue, results, workerStates, resolved, workersFinished,
                   promise, workerVars, toWorker, toCoordinator, cache, callerVars, historyVars,
                   fetchLog, artifact, extraction, encoderInput, encoderState, dataset,
                   resourceUsage, historicalToggle>>

ProgressInit ==
    /\ jobs \in {[i \in 1..n |-> JobA] : n \in 1..MaxCompletions}
    /\ MAX_WORKERS = 1
    /\ PoolStart
    /\ cache = EmptyCache
    /\ UnitIdle

ProgressNext == \E dt \in ProgressElapsed : Progress(dt)

ProgressSpec == ProgressInit /\ [][ProgressNext]_vars

\* the completion of the last report before completion i, 0 when there is none
RECURSIVE PreviousReport(_, _)
PreviousReport(log, i) ==
    IF i <= 1 THEN 0
    ELSE IF log[i - 1].shown THEN i - 1 ELSE PreviousReport(log, i - 1)

\* the time between the last report before completion i and completion i
SincePreviousReport(log, i) ==
    SumSeq([k \in 1..(i - PreviousReport(log, i)) |-> log[PreviousReport(log, i) + k].elapsed])

\* C31: a completion is reported exactly when it is the first one, the last
\* (N-th) one, or at least 1000 ms after the previous report; so a report
\* that is neither the first nor the last is at least a second after the
\* report before it.
C31_ProgressThrottled ==
    /\ Len(progressLog) = completedJobs
    /\ \A i \in 1..Len(progressLog) :
           /\ progressLog[i].shown <=>
                  \/ i = 1
                  \/ i = Len(jobs)
                  \/ SincePreviousReport(progressLog, i) >= 1000
           /\ (progressLog[i].shown /\ 1 < i /\ i < Len(jobs)) =>
                  SincePreviousReport(progressLog, i) >= 1000

\* four jobs: the second completion, 600 ms after the first, is not
\* reported, the third, 400 ms later, is, and the last one is reported at once
C31_Witness ==
    /\ Len(jobs) = 4
    /\ progressLog = <<[elapsed |-> 0, shown |-> TRUE], [elapsed |-> 600, shown |-> FALSE],
                       [elapsed |-> 400, shown |-> TRUE], [elapsed |-> 0, shown |-> TRUE]>>

(***************************************************************************)
(* The Event Extractor run on statuses and crashes                         *)
(*                                                                         *)
(* extractTestTimings is called up to MaxExtractions times on one complete *)
(* artifact of up to MaxStatusMarkers markers: test markers of every kind  *)
(* of status, a parallel marker and crash markers.                         *)
(***************************************************************************)
MaxStatusMarkers == 3

\* structured test markers, one per raw status, each with its own time range
StatusTestMarkers ==
    {Marker(0, <<14, 16>>, [type |-> "Test", status |-> "PASS", test |-> IdOneColon]),
     Marker(0, <<30, 40>>, [type |-> "Test", status |-> "TIMEOUT", test |-> IdOneColon]),
     Marker(0, <<11, 19>>, [type |-> "Test", status |-> "FAIL", test |-> IdOneColon]),
     Marker(0, <<12, 18>>, [type |-> "Test", status |-> "FAIL", color |-> "green", test |-> IdOneColon]),
     Marker(0, <<13, 17>>, [type |-> "Test", status |-> "SKIP", test |-> IdOneColon]),
     Marker(0, <<31, 39>>, [type |-> "Test", status |-> "EXPECTED-FAIL", test |-> IdOneColon]),
     Marker(0, <<32, 38>>, [type |-> "Test", test |-> IdOneColon]),
     Marker(0, <<10, 20>>, [type |-> "Test", status |-> "CRASH", test |-> IdOneColon]),
     Marker(0, <<9, 21>>, [type |-> "Test", status |-> "CRASH", test |-> IdTwoColons])}

\* crash markers: on the bounds of the range 10..20, inside and outside of
\* it, of another test, with and without signature and minidump
StatusCrashMarkers ==
    {Marker(1, <<10, 10>>, [type |-> "Crash", test |-> IdOneColon,
                            signature |-> "sig_start", minidump |-> "dump_start"]),
     Marker(1, <<20, 20>>, [type |-> "Crash", test |-> IdOneColon, signature |-> "sig_end"]),
     Marker(1, <<15, 15>>, [type |-> "Crash", test |-> IdOneColon]),
     Marker(1, <<25, 25>>, [type |-> "Crash", test |-> IdOneColon,
                            signature |-> "sig_late", minidump |-> "dump_late"]),
     Marker(1, <<15, 15>>, [type |-> "Crash", test |-> IdTwoColons,
                            signature |-> "sig_other", minidump |-> "dump_other"])}

StatusMarkerKinds ==
    StatusTestMarkers \cup StatusCrashMarkers
    \cup {Marker(1, <<10, 20>>, [type |-> "Text", text |-> <<"parallel">>])}

StatusArtifacts == {Artifact(ms, "nothing") : ms \in SeqsUpTo(StatusMarkerKinds, MaxStatusMarkers)}

StatusInit ==
    /\ PoolIdle
    /\ cache = EmptyCache
    /\ fetchLog = <<>>
    /\ encoderInput = <<>>
    /\ encoderState = NoValue
    /\ dataset = NoValue
    /\ progressLog = <<>>
    /\ resourceUsage = NoValue
    /\ historicalToggle = NoValue
    /\ artifact \in StatusArtifacts
    /\ extraction = <<>>

StatusSpec == StatusInit /\ [][ExtractNext]_vars

\* marker i is a structured test marker
TestMarker(i) == NamedTest(i) /\ DataIsType(At(ArtifactMarkers.data, i), "Test")

\* data.status || 'UNKNOWN' of marker i
RawStatus(i) ==
    IF Has(At(ArtifactMarkers.data, i), "status") /\ At(ArtifactMarkers.data, i).status # ""
    THEN At(ArtifactMarkers.data, i).status ELSE "UNKNOWN"

GreenFail(i) ==
    /\ RawStatus(i) = "FAIL"
    /\ Has(At(ArtifactMarkers.data, i), "color")
    /\ At(ArtifactMarkers.data, i).color = "green"

\* C32: the status of an event is the raw status of its marker, or
\* EXPECTED-FAIL for a green FAIL, or the raw status with exactly one of
\* -PARALLEL and -SEQUENTIAL; a suffix is there only for the raw statuses
\* TIMEOUT, FAIL (not green) and PASS and only when the artifact holds a
\* parallel marker, and then it is there.
C32_SuffixOnlyWhereDue ==
    \A k \in 1..Len(extraction) :
        /\ ~extraction[k].throws
        /\ \A i \in MarkerIndexes :
               (TestMarker(i) /\ AloneAtItsTime(i)) =>
                   \A e \in EventsOf(k, i) :
                       IF GreenFail(i) THEN e.status = "EXPECTED-FAIL"
                       ELSE IF RawStatus(i) \in {"TIMEOUT", "FAIL", "PASS"} /\ ParallelMarkers # {}
                       THEN e.status \in {RawStatus(i) \o "-PARALLEL", RawStatus(i) \o "-SEQUENTIAL"}
                       ELSE e.status = RawStatus(i)

\* a TIMEOUT outside the parallel range and a SKIP inside it, extracted
\* from an artifact with a parallel marker
C32_Witness ==
    /\ Len(extraction) >= 1
    /\ ParallelMarkers # {}
    /\ \E i, j \in MarkerIndexes :
           /\ TestMarker(i) /\ RawStatus(i) = "TIMEOUT"
           /\ TestMarker(j) /\ RawStatus(j) = "SKIP"
           /\ \E e \in EventsOf(1, i) : e.status = "TIMEOUT-SEQUENTIAL"
           /\ \E e \in EventsOf(1, j) : e.status = "SKIP"

\* the crash markers with the raw test identifier of marker i that start
\* within the time range of marker i, bounds included
MatchingCrashes(i) ==
    {j \in MarkerIndexes :
        /\ DataIsType(At(ArtifactMarkers.data, j), "Crash")
        /\ Has(At(ArtifactMarkers.data, j), "test")
        /\ Has(At(ArtifactMarkers.data, i), "test")
        /\ At(ArtifactMarkers.data, j).test = At(ArtifactMarkers.data, i).test
        /\ At(ArtifactMarkers.startTime, j) >= At(ArtifactMarkers.startTime, i)
        /\ At(ArtifactMarkers.startTime, j) <= At(ArtifactMarkers.endTime, i)}

\* event e carries the signature and the minidump of crash marker j, each
\* one exactly when the marker has it
CarriesCrash(e, j) ==
    LET data == At(ArtifactMarkers.data, j)
    IN  /\ Has(e, "crashSignature") <=> Has(data, "signature")
        /\ Has(e, "crashSignature") => e.crashSignature = data.signature
        /\ Has(e, "minidump") <=> Has(data, "minidump")
        /\ Has(e, "minidump") => e.minidump = data.minidump

FirstOf(indexes) == CHOOSE j \in indexes : \A other \in indexes : j <= other

\* C33: an event made from a test marker with status CRASH carries the
\* signature and the minidump of the first crash marker that has the raw
\* test identifier of the test marker and starts within the test's
\* [start, end], bounds included; without such a crash marker it carries
\* neither field, and an event of any other status never carries them.
C33_CrashMarkerMatched ==
    \A k \in 1..Len(extraction) :
        \A i \in MarkerIndexes :
            (TestMarker(i) /\ AloneAtItsTime(i)) =>
                \A e \in EventsOf(k, i) :
                    IF RawStatus(i) = "CRASH" /\ MatchingCrashes(i) # {}
                    THEN CarriesCrash(e, FirstOf(MatchingCrashes(i)))
                    ELSE ~Has(e, "crashSignature") /\ ~Has(e, "minidump")

\* a crashed test whose event carries the signature of the crash marker
\* that starts at the end of the test, within an artifact that also holds a
\* crash marker of the same test after the end of the test
C33_Witness ==
    /\ Len(extraction) >= 1
    /\ \E i \in MarkerIndexes :
           /\ TestMarker(i) /\ RawStatus(i) = "CRASH"
           /\ \E j \in MatchingCrashes(i) :
                  At(ArtifactMarkers.startTime, j) = At(ArtifactMarkers.endTime, i)
           /\ \E j \in MarkerIndexes \ MatchingCrashes(i) :
                  /\ DataIsType(At(ArtifactMarkers.data, j), "Crash")
                  /\ At(ArtifactMarkers.data, j).test = At(ArtifactMarkers.data, i).test
           /\ \E e \in EventsOf(1, i) :
                  Has(e, "crashSignature") /\ e.crashSignature = "sig_end" /\ ~Has(e, "minidump")

\* run i of an emitted group as a reader decodes it: its task, its duration
\* and metadata.startTime plus the running sum of the stored timestamps
RunDecoded(group, i) ==
    [task     |-> At(dataset.tables.taskIds, group.taskIdIds[i]),
     duration |-> group.durations[i],
     time     |-> dataset.metadata.startTime + SumSeq(SubSeq(group.timestamps, 1, i))]

RunsDecoded(group) == [i \in 1..Len(group.timestamps) |-> RunDecoded(group, i)]

\* an event iterated over with its time in whole seconds
EventInSeconds(run) ==
    [task     |-> TaskIdString(run.result),
     duration |-> MathRound(run.timing.duration),
     time     |-> run.timing.timestamp \div 1000]

\* C34: in the emitted dataset metadata.startTime plus the running sum of a
\* group's timestamps is, for the i-th run of the group, the absolute time
\* of the event the run stands for in whole seconds (floor(ms / 1000)), and
\* the decoded times of a group never decrease.
C34_AbsoluteSeconds ==
    Emitted =>
        \A g \in GroupsEmitted :
            /\ SameValues(RunsDecoded(GroupEmitted(g)), MapSeq(EventsFolded(g[1], g[2]), EventInSeconds))
            /\ \A i \in 1..(Len(GroupEmitted(g).timestamps) - 1) :
                   RunDecoded(GroupEmitted(g), i).time <= RunDecoded(GroupEmitted(g), i + 1).time

\* a group of three runs of two tasks folded latest first, decoded as
\* second 150 of the second task and second 200 of both tasks
C34_Witness ==
    /\ Emitted
    /\ dataset.metadata.startTime = StartOfDay
    /\ \E g \in GroupsEmitted :
           /\ Len(GroupEmitted(g).timestamps) = 3
           /\ RunDecoded(GroupEmitted(g), 1).time = 150
           /\ RunDecoded(GroupEmitted(g), 2).time = 200
           /\ RunDecoded(GroupEmitted(g), 3).time = 200
           /\ RunDecoded(GroupEmitted(g), 1).task # RunDecoded(GroupEmitted(g), 2).task
           /\ EventInSeconds(EventsFolded(g[1], g[2])[1]) = RunDecoded(GroupEmitted(g), 2)

\* the status group of g as createDataTables built it, before the compression
GroupEncoded(g) == At(At(Encoded.testRuns, g[1]), g[2])

\* the least value of a non-empty sequence of numbers
Least(s) == CHOOSE v \in Range(s) : \A w \in Range(s) : v <= w

\* C35: every status group is sorted and delta-encoded on its own: the
\* first timestamp of a group is the time of its earliest run in seconds
\* after metadata.startTime (the base is zero, not the last run of the
\* group before), every later entry is a difference >= 0, and the arrays
\* of a group are the compression of that group alone, whatever the other
\* groups hold.
C35_GroupsIndependent ==
    Emitted =>
        \A g \in GroupsEmitted :
            /\ GroupEmitted(g).timestamps[1] = Least(RelativeSeconds(g))
            /\ \A i \in 2..Len(GroupEmitted(g).timestamps) : GroupEmitted(g).timestamps[i] >= 0
            /\ GroupEmitted(g) = CompressGroup(GroupEncoded(g), dataset.metadata.startTime)

\* a test with two groups next to each other, the second one earlier than
\* the first: each starts from zero
C35_Witness ==
    /\ Emitted
    /\ \E g, h \in GroupsEmitted :
           /\ g[1] = h[1]
           /\ h[2] = g[2] + 1
           /\ GroupEmitted(g).timestamps = <<100>>
           /\ GroupEmitted(h).timestamps = <<50>>

\* the groups of a testRuns array, as <<testId, statusId>>
GroupsOf(testRuns) ==
    {g \in (0..(Len(encoderState.testIdMap) - 1)) \X (0..(Len(encoderState.tables.statuses) - 1)) :
        Present(testRuns, g[1], g[2])}

\* the arrays a group has
ArraysPresent(group) ==
    {name \in {"taskIdIds", "durations", "timestamps", "messageIds", "crashSignatureIds", "minidumps"} :
        Has(group, name)}

\* the arrays a group of the given status must have
ArraysDue(status) ==
    {"taskIdIds", "durations", "timestamps"}
    \cup (IF status = "SKIP" THEN {"messageIds"} ELSE {})
    \cup (IF status = "CRASH" THEN {"crashSignatureIds", "minidumps"} ELSE {})

\* run i of a group with the time given for it, ids resolved through the tables
RunAt(group, i, time) ==
    [task |-> At(encoderState.tables.taskIds, group.taskIdIds[i]),
     duration |-> group.durations[i],
     time |-> time]
    @@ Opt(Has(group, "messageIds"),
           [message |-> Resolved(encoderState.tables.messages, group.messageIds[i])])
    @@ Opt(Has(group, "crashSignatureIds"),
           [crashSignature |-> Resolved(encoderState.tables.crashSignatures, group.crashSignatureIds[i])])
    @@ Opt(Has(group, "minidumps"), [minidump |-> group.minidumps[i]])

\* an event iterated over with the time given for it
EventAt(run, time) ==
    [task |-> TaskIdString(run.result),
     duration |-> MathRound(run.timing.duration),
     time |-> time]
    @@ Opt(run.timing.status = "SKIP",
           [message |-> IF HasMessage(run) THEN [string |-> run.timing.message] ELSE Null])
    @@ Opt(run.timing.status = "CRASH",
           [crashSignature |-> IF HasCrashSignature(run)
                               THEN [string |-> run.timing.crashSignature] ELSE Null,
            minidump |-> IF Has(run.timing, "minidump") THEN run.timing.minidump ELSE NoDump])

\* the arrays of the group of g are the ones due for its status, all of one length
SameLengths(testRuns, g) ==
    LET group == At(At(testRuns, g[1]), g[2])
    IN  /\ ArraysPresent(group) = ArraysDue(At(encoderState.tables.statuses, g[2]))
        /\ \A name \in ArraysPresent(group) : Len(group[name]) = Len(group.taskIdIds)

\* C36: during the fold (after every job result folded) and in the emitted
\* dataset, all arrays of a status group have the same length and index i
\* of every array describes the same run: during the fold the i-th event
\* folded into the group, in the dataset the events of the group in one
\* order for all arrays; messageIds exists exactly in the SKIP groups,
\* crashSignatureIds and minidumps exactly in the CRASH groups.
C36_ArraysAligned ==
    /\ \A g \in GroupsOf(Encoded.testRuns) :
           /\ SameLengths(Encoded.testRuns, g)
           /\ LET group == At(At(Encoded.testRuns, g[1]), g[2])
              IN  [i \in 1..Len(group.taskIdIds) |-> RunAt(group, i, group.timestamps[i])]
                  = MapSeq(EventsFolded(g[1], g[2]), LAMBDA run : EventAt(run, run.timing.timestamp))
    /\ Emitted =>
           \A g \in GroupsOf(dataset.testRuns) :
               /\ SameLengths(dataset.testRuns, g)
               /\ LET group == At(At(dataset.testRuns, g[1]), g[2])
                  IN  SameValues([i \in 1..Len(group.taskIdIds) |->
                                     RunAt(group, i, Decode(group.timestamps)[i])],
                                 MapSeq(EventsFolded(g[1], g[2]),
                                        LAMBDA run : EventAt(run, (run.timing.timestamp \div 1000)
                                                                  - dataset.metadata.startTime)))

\* an emitted dataset with a SKIP group, a CRASH group whose run carries a
\* signature and a minidump, and a CRASH group whose run carries neither
C36_Witness ==
    /\ Emitted
    /\ \E g \in GroupsOf(dataset.testRuns) : At(encoderState.tables.statuses, g[2]) = "SKIP"
    /\ \E g \in GroupsOf(dataset.testRuns) :
           LET group == At(At(dataset.testRuns, g[1]), g[2])
           IN  /\ At(encoderState.tables.statuses, g[2]) = "CRASH"
               /\ Len(group.minidumps) = 1
               /\ group.minidumps[1] # NoDump
               /\ group.crashSignatureIds[1] # NoId
    /\ \E g \in GroupsOf(dataset.testRuns) :
           LET group == At(At(dataset.testRuns, g[1]), g[2])
           IN  /\ At(encoderState.tables.statuses, g[2]) = "CRASH"
               /\ group.minidumps = <<NoDump>>
               /\ group.crashSignatureIds = <<NoId>>

\* the ids of the task tokens met so far
TaskTokens == 0..(Len(encoderState.tables.taskIds) - 1)

\* the first job result iterated over that has events and the given token
FirstOfTask(token) ==
    LET withToken == SelectSeq(Iterated(encoderInput),
                               LAMBDA r : Len(r.timings) > 0 /\ TaskIdString(r) = token)
    IN  withToken[1]

\* C37: the task info is recorded on the first occurrence of a task token
\* only: repositoryIds[k] and jobNameIds[k], once set, are left unchanged by
\* every later job result folded, also by one with the same token and
\* another job name or repository; so they name the repository and the job
\* name of the first job result with that token.
C37_TaskInfoOnce ==
    /\ [][\A k \in TaskTokens :
            /\ At(encoderState'.taskInfo.repositoryIds, k) = At(encoderState.taskInfo.repositoryIds, k)
            /\ At(encoderState'.taskInfo.jobNameIds, k) = At(encoderState.taskInfo.jobNameIds, k)]_vars
    /\ [](\A k \in TaskTokens :
            /\ At(encoderState.tables.repositories, At(encoderState.taskInfo.repositoryIds, k))
               = FirstOfTask(At(encoderState.tables.taskIds, k)).repository
            /\ At(encoderState.tables.jobNames, At(encoderState.taskInfo.jobNameIds, k))
               = FirstOfTask(At(encoderState.tables.taskIds, k)).jobName)

\* two job results with the token "A.0", the second one of another job name
\* and repository: the task info still names the first
C37_Witness ==
    /\ Len(encoderInput) = 2
    /\ encoderInput[1] # Null /\ encoderInput[2] # Null
    /\ TaskIdString(encoderInput[1]) = TaskIdString(encoderInput[2])
    /\ encoderInput[1].jobName # encoderInput[2].jobName
    /\ encoderInput[1].repository # encoderInput[2].repository
    /\ Len(encoderState.tables.jobNames) = 2
    /\ Len(encoderState.tables.repositories) = 2
    /\ encoderState.tables.taskIds = <<"A.0">>
    /\ encoderState.taskInfo.repositoryIds = <<0>>
    /\ encoderState.taskInfo.jobNameIds = <<0>>

(***************************************************************************)
(* The resource usage summary run alone                                    *)
(*                                                                         *)
(* extractResourceUsage is called once on a profile of up to MaxSamples    *)
(* markers: CPU samples with a percentage between 0 and 100 (in tenths of  *)
(* a percent, as everywhere in this module) or with a text parseFloat      *)
(* gives NaN for (no cpuPercent), memory samples and markers without data, *)
(* on a machine of 1, 8 or 16 logical CPUs or of an unknown number.  A     *)
(* sample ends no earlier than it starts.                                  *)
(***************************************************************************)
MaxSamples == 2

\* 0%, 3.1%, 6.2%, 6.3%, 9.9%, 10%, 12.5%, 15.7%, 50%, 99.9%, 100%
SamplePercents == {0, 31, 62, 63, 99, 100, 125, 157, 500, 999, 1000}

SampleTimes == {<<10, 12>>, <<20, 25>>}

SampleKinds ==
    {Marker(1, t, [type |-> "CPU", cpuPercent |-> pct]) : t \in SampleTimes, pct \in SamplePercents}
    \cup {Marker(1, <<30, 37>>, [type |-> "CPU"]),
          Marker(1, <<40, 40>>, [type |-> "Mem", used |-> 2048]),
          Marker(1, <<50, 53>>, Null)}

UsageProfile(ms, cores) ==
    [meta    |-> [startTime |-> 100000] @@ Opt(cores # 0, [logicalCPUs |-> cores]),
     threads |-> <<[stringArray |-> ArtifactStrings, markers |-> MarkerTable(ms)]>>]

UsageProfiles == {UsageProfile(ms, cores) : ms \in SeqsUpTo(SampleKinds, MaxSamples), cores \in {0, 1, 8, 16}}

\* part_005 line 301: one call of extractResourceUsage(profile)
Summarise ==
    /\ ~Has(resourceUsage, "summary")
    /\ resourceUsage' = [profile |-> resourceUsage.profile,
                         summary |-> extractResourceUsage(resourceUsage.profile)]
    /\ UNCHANGED <<poolVars, cache, fetchLog, artifact, extraction, encoderInput, encoderState,
                   dataset, progressLog, historicalToggle>>

UsageInit ==
    /\ PoolIdle
    /\ cache = EmptyCache
    /\ fetchLog = <<>>
    /\ artifact = NoValue
    /\ extraction = <<>>
    /\ encoderInput = <<>>
    /\ encoderState = NoValue
    /\ dataset = NoValue
    /\ progressLog = <<>>
    /\ historicalToggle = NoValue
    /\ resourceUsage \in {[profile |-> p] : p \in UsageProfiles}

UsageNext == Summarise

UsageSpec == UsageInit /\ [][UsageNext]_vars

\* the markers of the profile summarised, and the summary
SampleMarkers == resourceUsage.profile.threads[1].markers

Summary == resourceUsage.summary.value

\* the CPU samples with a parseable percentage in [0, 100]
CpuSample(i) ==
    /\ DataIsType(At(SampleMarkers.data, i), "CPU")
    /\ Has(At(SampleMarkers.data, i), "cpuPercent")
    /\ At(SampleMarkers.data, i).cpuPercent \in 0..1000

\* 100 / logicalCPUs, or 12.5 when the number of CPUs is unknown, as the
\* divisor of 100
CoresSummarised ==
    IF Has(resourceUsage.profile.meta, "logicalCPUs") THEN resourceUsage.profile.meta.logicalCPUs ELSE 8

\* below half of the usage of one core: pct < (100 / cores) / 2
IdleSample(i) == CpuSample(i) /\ At(SampleMarkers.data, i).cpuPercent * CoresSummarised * 2 < 1000

\* within [0.75, 1.25] of the usage of one core
SingleCoreSample(i) ==
    /\ CpuSample(i)
    /\ At(SampleMarkers.data, i).cpuPercent * CoresSummarised * 4 >= 3000
    /\ At(SampleMarkers.data, i).cpuPercent * CoresSummarised * 4 <= 5000

\* the bucket of a sample: floor(pct / 10), 100% in the last one
BucketOf(i) ==
    IF At(SampleMarkers.data, i).cpuPercent = 1000 THEN 9
    ELSE At(SampleMarkers.data, i).cpuPercent \div 100

\* the total duration of the markers that satisfy Counted
DurationOf(Counted(_)) ==
    SumSeq([n \in 1..SampleMarkers.length |->
               IF Counted(n - 1)
               THEN At(SampleMarkers.endTime, n - 1) - At(SampleMarkers.startTime, n - 1) ELSE 0])

\* C38: every CPU sample with a parseable percentage in [0, 100] adds its
\* duration to the bucket floor(pct / 10), 100% to the last one, and nothing
\* else is added to a bucket, so the sum of cpuBuckets is the total duration
\* of these samples; idleTime and singleCoreTime are the durations of two
\* sets of samples with no sample in both, so their sum is at most the sum
\* of cpuBuckets.
C38_BucketsPartition ==
    Has(resourceUsage, "summary") =>
        /\ ~resourceUsage.summary.throws
        /\ Len(Summary.cpuBuckets) = 10
        /\ \A b \in 0..9 :
               At(Summary.cpuBuckets, b) = DurationOf(LAMBDA i : CpuSample(i) /\ BucketOf(i) = b)
        /\ SumSeq(Summary.cpuBuckets) = DurationOf(CpuSample)
        /\ Summary.idleTime = DurationOf(IdleSample)
        /\ Summary.singleCoreTime = DurationOf(SingleCoreSample)
        /\ \A i \in 0..(SampleMarkers.length - 1) : ~(IdleSample(i) /\ SingleCoreSample(i))
        /\ Summary.idleTime + Summary.singleCoreTime <= SumSeq(Summary.cpuBuckets)

\* a summary of a sample at 100% of a single CPU, counted in the last
\* bucket and as single-core, and of an idle sample
C38_Witness ==
    /\ Has(resourceUsage, "summary")
    /\ CoresSummarised = 1
    /\ Summary.cpuBuckets[10] = 2
    /\ Summary.cpuBuckets[1] = 5
    /\ Summary.singleCoreTime = 2
    /\ Summary.idleTime = 5

(***************************************************************************)
(* The historical-mode toggle (initHistoricalToggle)                       *)
(*                                                                         *)
(* historicalToggle holds the two variables of the closure, the disabled   *)
(* flag of the button, the status text and, for every call of toggle()     *)
(* that is waiting in its try block, the await it waits at.  The page may  *)
(* click the button when it is enabled, and call toggle() and setMode()    *)
(* at any time, up to MaxCalls times; fetchData, response.json() and       *)
(* onToggle settle one at a time in any order.                             *)
(***************************************************************************)
MaxCalls == 3

\* what response.json() resolves with: the body is a JSON text
HistoricalBodies ==
    {[metadata |-> [days |-> 21]], [tests |-> <<>>], Null}

\* lines 208-209
ToggleStart ==
    [isHistoricalMode |-> FALSE, historicalData |-> Null, disabled |-> FALSE,
     statusText |-> "", loads |-> <<>>, outcomes |-> <<>>, calls |-> 0]

RemoveAt(s, n) == SubSeq(s, 1, n - 1) \o SubSeq(s, n + 1, Len(s))

\* lines 211-226: toggle() up to its first await.  In historical mode it
\* switches back (what follows "await onToggle(false, null)" assigns
\* nothing); in single-day mode it disables the button and calls fetchData
toggle(t) ==
    IF t.isHistoricalMode
    THEN [t EXCEPT !.isHistoricalMode = FALSE]
    ELSE [t EXCEPT !.statusText = "Loading historical data...",
                   !.disabled = TRUE,
                   !.loads = Append(@, "fetchData")]

\* lines 256-265: the catch clause when the try block threw, and the finally clause
EndOfLoad(t, n, failed, outcome) ==
    [t EXCEPT !.statusText = IF failed THEN "Error loading data" ELSE @,
              !.disabled = FALSE,
              !.loads = RemoveAt(@, n),
              !.outcomes = Append(@, outcome)]

ToggleFrame ==
    UNCHANGED <<poolVars, cache, fetchLog, artifact, extraction, encoderInput, encoderState,
                dataset, progressLog, resourceUsage>>

Called(t) == [t EXCEPT !.calls = @ + 1]

\* line 268: a click on the button; a disabled button gets no click event
Click ==
    /\ historicalToggle.calls < MaxCalls
    /\ ~historicalToggle.disabled
    /\ historicalToggle' = toggle(Called(historicalToggle))
    /\ ToggleFrame

\* line 271: the page calls toggle()
CallToggle ==
    /\ historicalToggle.calls < MaxCalls
    /\ historicalToggle' = toggle(Called(historicalToggle))
    /\ ToggleFrame

\* lines 274-278
setMode(historical) ==
    /\ historicalToggle.calls < MaxCalls
    /\ historicalToggle' = IF historical # historicalToggle.isHistoricalMode
                           THEN toggle(Called(historicalToggle))
                           ELSE Called(historicalToggle)
    /\ ToggleFrame

\* lines 227-230: "await fetchData(...)" of load n settles
FetchSettles(n, outcome) ==
    /\ n \in 1..Len(historicalToggle.loads)
    /\ historicalToggle.loads[n] = "fetchData"
    /\ historicalToggle' =
           IF outcome = "ok" THEN [historicalToggle EXCEPT !.loads[n] = "json"]
           ELSE EndOfLoad(historicalToggle, n, TRUE, outcome)
    /\ ToggleFrame

\* lines 232-253: "await response.json()" of load n settles: it rejects, or
\* it resolves and the function runs on to "await onToggle(true, ...)" or to
\* the TypeError of "historicalData.metadata" when the body is null
JsonSettles(n, parsed, body) ==
    /\ n \in 1..Len(historicalToggle.loads)
    /\ historicalToggle.loads[n] = "json"
    /\ historicalToggle' =
           IF ~parsed THEN EndOfLoad(historicalToggle, n, TRUE, "not JSON")
           ELSE LET loaded == [historicalToggle EXCEPT !.historicalData = body,
                                                      !.isHistoricalMode = TRUE]
                IN  IF body = Null THEN EndOfLoad(loaded, n, TRUE, "TypeError")
                    ELSE [loaded EXCEPT !.statusText = IF Has(body, "metadata") THEN "days" ELSE @,
                                        !.loads[n] = "onToggle"]
    /\ ToggleFrame

\* lines 253-265: "await onToggle(true, historicalData)" of load n settles
OnToggleSettles(n, fulfilled) ==
    /\ n \in 1..Len(historicalToggle.loads)
    /\ historicalToggle.loads[n] = "onToggle"
    /\ historicalToggle' = EndOfLoad(historicalToggle, n, ~fulfilled,
                                     IF fulfilled THEN "shown" ELSE "onToggle rejected")
    /\ ToggleFrame

ToggleInit ==
    /\ PoolIdle
    /\ cache = EmptyCache
    /\ fetchLog = <<>>
    /\ artifact = NoValue
    /\ extraction = <<>>
    /\ encoderInput = <<>>
    /\ encoderState = NoValue
    /\ dataset = NoValue
    /\ progressLog = <<>>
    /\ resourceUsage = NoValue
    /\ historicalToggle = ToggleStart

ToggleNext ==
    \/ Click
    \/ CallToggle
    \/ \E historical \in BOOLEAN : setMode(historical)
    \/ \E n \in 1..MaxCalls, outcome \in {"ok", "not ok", "rejected"} : FetchSettles(n, outcome)
    \/ \E n \in 1..MaxCalls, parsed \in BOOLEAN, body \in HistoricalBodies : JsonSettles(n, parsed, body)
    \/ \E n \in 1..MaxCalls, fulfilled \in BOOLEAN : OnToggleSettles(n, fulfilled)

ToggleSpec == ToggleInit /\ [][ToggleNext]_vars

\* a load attempt ends in this step
LoadEnds == Len(historicalToggle'.outcomes) > Len(historicalToggle.outcomes)

\* a load attempt ends in this step without historical data
LoadFails == LoadEnds /\ Last(historicalToggle'.outcomes) \in {"not ok", "rejected", "not JSON", "TypeError"}

\* C39: whatever toggle() and setMode() calls and fetch outcomes there
\* were, isHistoricalMode() is true only when getHistoricalData() is not
\* null; a load that fails leaves the mode as it was, and the button is
\* enabled when a load attempt has ended.
C39_HistoricalOnlyWhenLoaded ==
    /\ [](historicalToggle.isHistoricalMode => historicalToggle.historicalData # Null)
    /\ [][LoadFails => historicalToggle'.isHistoricalMode = historicalToggle.isHistoricalMode]_vars
    /\ [][LoadEnds => ~historicalToggle'.disabled]_vars

\* the first load ended with the TypeError of a null body: the page shows
\* the error and is in historical mode without data
C39_NullBody ==
    /\ historicalToggle # NoValue
    /\ historicalToggle.outcomes = <<"TypeError">>
    /\ historicalToggle.statusText = "Error loading data"
    /\ historicalToggle.isHistoricalMode
    /\ historicalToggle.historicalData = Null
    /\ ~historicalToggle.disabled
====
